---- MODULE Spec2Model ----
(***************************************************************************)
(* Per-chat conversation memory of make_bot.                               *)
(*                                                                         *)
(*   chat_history.py     the conversation store: two module-level maps     *)
(*                       (chat_map, chat_context) backed by one .jsonl     *)
(*                       turn log and one context file per chat            *)
(*   context_manager.py  the token budget: analyze_context_usage,          *)
(*                       compress_chat_history, compress_context,          *)
(*                       ensure_context_fits                               *)
(*                                                                         *)
(* Spec       the store as a state machine: one action per store function, *)
(*            plus the environment (clock, process restart, I/O faults).   *)
(* SpecFit    the budget functions applied to inputs drawn from bounded    *)
(*            sets.                                                        *)
(* SpecQuery  the read functions of the store applied to turn lists drawn  *)
(*            from bounded sets.                                           *)
(* SpecBudget the parts of the budget, analyze_context_usage and           *)
(*            compress_context, applied to inputs drawn from bounded sets. *)
(* SpecContext  the context functions of the store on one chat, with every *)
(*            context text of the callers and the faults of the context    *)
(*            file.                                                        *)
(* SpecPair   the store functions called on two chats, in every order.     *)
(* SpecRead   the read functions called on a chat in each state the store  *)
(*            can leave it in.                                             *)
(* SpecProcess  AgentService.process_message of agent.py, two calls in     *)
(*            flight at a time.                                            *)
(* SpecAuth   the allow-list of the bot modules: the parse of              *)
(*            ALLOWED_CHAT_IDS and the decorator around the handlers.      *)
(* SpecTool   the turn filter and the limit of the get_chat_history tool   *)
(*            applied to row lists and arguments drawn from bounded sets.  *)
(***************************************************************************)
EXTENDS Integers, Sequences, FiniteSets, TLC

(***************************************************************************)
(* Bounds of the model.                                                    *)
(***************************************************************************)
\* add_messages_to_history is taken only while a chat holds fewer turns
MaxTurns == 2

(***************************************************************************)
(* Program constants.                                                      *)
(***************************************************************************)
MAX_RECENT_MESSAGES == 15
MAX_RECENT_AGE_MINUTES == 10

\* chat ids the callers use
Chats == {1, 2}
\* the chat Spec operates on: the store keys every map and file by chat_id
SpecChats == {1}

\* the clock step: the recent-age window.  The store reads the clock only to
\* compare a turn's age with that window, so the model has two instants, 0 and
\* TickStep: a turn is then either of age 0 or too old to be recent.
TickStep == MAX_RECENT_AGE_MINUTES * 60

(***************************************************************************)
(* Messages.  A message is opaque to the store.  "a" and "B" stand for     *)
(* JSON-native values (str, dict of str); OBJ stands for an object         *)
(* json.dumps cannot serialize (the pydantic_ai ModelMessage dataclasses   *)
(* process_message passes in).                                             *)
(***************************************************************************)
OBJ == "<ModelRequest>"
Messages == {"a", "B", OBJ}
MessageLists == {<<"a">>, <<"B", "a">>, <<OBJ>>}

\* context texts the callers set: empty, blank, plain, padded
Contexts == {"", " ", "sum", "sum "}
\* the texts set_chat_context is called with in Spec
SetContexts == {"", "sum"}

EmptyMap == [x \in {} |-> <<>>]
Put(f, k, v) == [x \in DOMAIN f \cup {k} |-> IF x = k THEN v ELSE f[x]]
Del(f, k) == [x \in DOMAIN f \ {k} |-> f[x]]

Max(a, b) == IF a >= b THEN a ELSE b
Min(a, b) == IF a <= b THEN a ELSE b
Abs(a) == IF a < 0 THEN 0 - a ELSE a

IsPrefix(s, t) == Len(s) <= Len(t) /\ \A i \in 1..Len(s) : s[i] = t[i]
\* s[-n:]
Last(s, n) == IF Len(s) <= n THEN s ELSE SubSeq(s, Len(s) - n + 1, Len(s))

(***************************************************************************)
(* json.dumps / json.loads on one message and on one line of the log.      *)
(* A line of the .jsonl file is a record, a malformed text (a truncated or *)
(* damaged record) or a blank line.                                        *)
(***************************************************************************)
Serializable(m) == m # OBJ
json_dumps(m) == "\"" \o m \o "\""
\* the texts of the model hold no character json.dumps escapes
json_loads(j) == SubSeq(j, 2, Len(j) - 1)

TurnSerializable(t) == \A i \in 1..Len(t[1]) : Serializable(t[1][i])
DumpLine(t) ==
    [kind |-> "record", timestamp |-> t[2],
     messages |-> [i \in 1..Len(t[1]) |-> json_dumps(t[1][i])]]
LoadLine(l) == <<[i \in 1..Len(l.messages) |-> json_loads(l.messages[i])], l.timestamp>>
Malformed == [kind |-> "malformed", timestamp |-> 0, messages |-> <<>>]

\* str.strip() on the context texts
Strip(s) == CASE s = " " -> "" [] s = "sum " -> "sum" [] OTHER -> s

(***************************************************************************)
(* I/O faults the environment can inject into one file operation.          *)
(*   none   the operation succeeds                                         *)
(*   stat   os.stat fails (EIO, EACCES) under file_path.exists(), which    *)
(*          is called before the try block of _load_from_file.  What       *)
(*          exists() does then depends on the pathlib of the build:        *)
(*            stat          it raises the OSError again                    *)
(*            stat_ignored  it answers False, as os.path.exists does       *)
(*   open   open() raises: nothing is read or written                      *)
(*   write  f.write raises at line `at`; `partial` tells whether a         *)
(*          truncated piece of that line reached the file                  *)
(***************************************************************************)
NoFault == [kind |-> "none", at |-> 0, partial |-> FALSE]
OpenFault == [kind |-> "open", at |-> 0, partial |-> FALSE]
StatFaults == {[kind |-> k, at |-> 0, partial |-> FALSE] : k \in {"stat", "stat_ignored"}}
WriteFaults ==
    {[kind |-> "write", at |-> k, partial |-> p] : k \in 1..(MaxTurns + 1), p \in BOOLEAN}
Faults == {NoFault, OpenFault} \cup WriteFaults

VARIABLES
    chat_map,       \* chat id -> list of (messages, timestamp); DOMAIN = loaded chats
    chat_context,   \* chat id -> context text; DOMAIN = chats with a cached context
    chat_file,      \* chat id -> lines of chat_<id>.jsonl; DOMAIN = files that exist
    context_file,   \* chat id -> content of context_<id>.txt; DOMAIN = files that exist
    now,            \* time.time(), in seconds
    ret,            \* the last call: its name, chat, argument and I/O outcome
    usage,          \* chat id -> what has been done to the chat so far:
                    \*   "adds_ok"  only add_messages_to_history and reads, no I/O error
                    \*   "adds"     only add_messages_to_history and reads in this
                    \*              process, some write of the log failed
                    \*   "reset"    set_chat_context with a blank text was called; since
                    \*              then no turn was added and the process went on
                    \*   "other"    anything else
    expected        \* chat id -> the messages of the turns added so far, in call order
                    \*            (kept while usage is not "other")

storeVars == <<chat_map, chat_context, chat_file, context_file, now, ret, usage, expected>>

\* ensure_context_fits at work (SpecFit)
VARIABLES
    fit_pc,     \* "idle" | "in" | "out" | "again"
    fit_in,     \* the bundle: system_prompt, context, chat_history, user_input, model
    fit_out,    \* what ensure_context_fits returned for fit_in
    fit_again   \* what it returned for its own output

fitVars == <<fit_pc, fit_in, fit_out, fit_again>>

\* a read of the store as its caller sees it (SpecQuery)
VARIABLES
    query       \* the last read call: its name, its arguments and the value returned

\* process_message at work (SpecProcess)
VARIABLES
    tasks,      \* call slot -> the process_message call last run in it, for the
                \* slots that have run a call
    overlapped  \* chats for which a call was started while another was awaiting

procVars == <<tasks, overlapped>>

\* the bot's handlers behind the authorization decorator (SpecAuth)
VARIABLES
    auth        \* the module deployed, its ALLOWED_CHAT_IDS and the last update handled

botVars == <<procVars, auth>>

vars == <<storeVars, fitVars, query, botVars>>

Call(op, c, arg, io) == [op |-> op, chat |-> c, arg |-> arg, io |-> io]

(***************************************************************************)
(* _save_to_file(chat_id, "chat"): the whole list is written again, the    *)
(* file being opened with mode 'w'.  Result: <<file map, "ok" | "error">>. *)
(***************************************************************************)
RECURSIVE WriteLines(_, _, _, _)
\* the loop of lines 41-46 from turn i on; acc is what reached the file
WriteLines(turns, i, acc, fault) ==
    IF i > Len(turns) THEN <<acc, "ok">>
    ELSE IF ~TurnSerializable(turns[i]) THEN <<acc, "error">>        \* json.dumps raises
    ELSE IF fault.kind = "write" /\ fault.at = i
         THEN <<IF fault.partial THEN Append(acc, Malformed) ELSE acc, "error">>
    ELSE WriteLines(turns, i + 1, Append(acc, DumpLine(turns[i])), fault)

\* faulty variant of _save_to_file: only the newest turn is written to the file
_save_chat_newest_only(map, files, c, fault) ==
    IF c \notin DOMAIN map THEN <<files, "ok">>
    ELSE IF fault.kind = "open" THEN <<files, "error">>
    ELSE LET w == WriteLines(Last(map[c], 1), 1, <<>>, fault)
         IN  <<Put(files, c, w[1]), w[2]>>

_save_chat(map, files, c, fault) ==
    IF c \notin DOMAIN map THEN <<files, "ok">>
    ELSE IF fault.kind = "open" THEN <<files, "error">>
    ELSE LET w == WriteLines(map[c], 1, <<>>, fault)
         IN  <<Put(files, c, w[1]), w[2]>>

\* _save_to_file(chat_id, "context")
_save_context(ctxs, files, c, fault) ==
    IF c \notin DOMAIN ctxs THEN <<files, "ok">>
    ELSE IF fault.kind = "open" THEN <<files, "error">>
    ELSE IF fault.kind = "write" THEN <<Put(files, c, ""), "error">>
    ELSE <<Put(files, c, ctxs[c]), "ok">>

(***************************************************************************)
(* _load_from_file(chat_id, "chat"): one try block around the whole loop,  *)
(* so any exception makes the function return [].                          *)
(***************************************************************************)
RECURSIVE ReadLines(_, _, _)
\* the loop of lines 67-70; <<messages, raised>>
ReadLines(lines, i, acc) ==
    IF i > Len(lines) THEN <<acc, FALSE>>
    ELSE IF lines[i].kind = "blank" THEN ReadLines(lines, i + 1, acc)
    ELSE IF lines[i].kind = "malformed" THEN <<acc, TRUE>>           \* json.loads raises
    ELSE ReadLines(lines, i + 1, Append(acc, LoadLine(lines[i])))

_load_chat(files, c, fault) ==
    IF c \notin DOMAIN files \/ fault.kind = "stat_ignored" THEN <<>>
    ELSE IF fault.kind = "open" THEN <<>>
    ELSE LET r == ReadLines(files[c], 1, <<>>)
         IN  IF r[2] THEN <<>> ELSE r[1]

\* _load_from_file(chat_id, "context")
_load_context(files, c, fault) ==
    IF c \notin DOMAIN files THEN ""
    ELSE IF fault.kind = "open" THEN ""
    ELSE Strip(files[c])

\* faulty variant of _ensure_chat_loaded: the log is read at every call
_ensure_chat_loaded_always(map, files, c, fault) == Put(map, c, _load_chat(files, c, fault))

\* _ensure_chat_loaded: the chat_map after the call
_ensure_chat_loaded(map, files, c, fault) ==
    IF c \notin DOMAIN map THEN Put(map, c, _load_chat(files, c, fault)) ELSE map

\* the load of this call meets an I/O error that ends it with []
LoadFails(map, files, c, fault) ==
    c \notin DOMAIN map /\ c \in DOMAIN files /\ fault.kind \in {"open", "stat_ignored"}

\* the load of this call raises: exists() of line 60 is outside the try block, so
\* the exception leaves _load_from_file, _ensure_chat_loaded (before chat_map is
\* assigned) and the function that was called
ExistsRaises(map, c, fault) == c \notin DOMAIN map /\ fault.kind = "stat"

(***************************************************************************)
(* _get_recent_messages                                                    *)
(***************************************************************************)
\* faulty variant of _get_recent_messages: <= in place of <, so a tie goes to the
\* turns selected by age
_get_recent_messages_tie(map, c, t) ==
    IF c \notin DOMAIN map THEN <<>>
    ELSE LET max_age_seconds == MAX_RECENT_AGE_MINUTES * 60
             InTime(turn) == t - turn[2] < max_age_seconds
             recent_by_time == SelectSeq(map[c], InTime)
             recent_by_count == Last(map[c], MAX_RECENT_MESSAGES)
         IN  IF Len(recent_by_time) <= Len(recent_by_count)
             THEN recent_by_time ELSE recent_by_count

\* faulty variant of _get_recent_messages: > in place of <, the longer selection
\* is returned
_get_recent_messages_longer(map, c, t) ==
    IF c \notin DOMAIN map THEN <<>>
    ELSE LET max_age_seconds == MAX_RECENT_AGE_MINUTES * 60
             InTime(turn) == t - turn[2] < max_age_seconds
             recent_by_time == SelectSeq(map[c], InTime)
             recent_by_count == Last(map[c], MAX_RECENT_MESSAGES)
         IN  IF Len(recent_by_time) > Len(recent_by_count)
             THEN recent_by_time ELSE recent_by_count

_get_recent_messages(map, c, t) ==
    IF c \notin DOMAIN map THEN <<>>
    ELSE LET max_age_seconds == MAX_RECENT_AGE_MINUTES * 60
             InTime(turn) == t - turn[2] < max_age_seconds
             recent_by_time == SelectSeq(map[c], InTime)
             recent_by_count == Last(map[c], MAX_RECENT_MESSAGES)
         IN  IF Len(recent_by_time) < Len(recent_by_count)
             THEN recent_by_time ELSE recent_by_count

RECURSIVE Flatten(_)
\* messages.extend(message_list) over the selected turns
Flatten(turns) ==
    IF turns = <<>> THEN <<>> ELSE Head(turns)[1] \o Flatten(Tail(turns))

\* get_chat_history: <<returned messages, chat_map after the call>>
get_chat_history(map, files, c, full_history, t, fault) ==
    LET m == _ensure_chat_loaded(map, files, c, fault)
        selected_messages == IF full_history THEN m[c] ELSE _get_recent_messages(m, c, t)
    IN  <<Flatten(selected_messages), m>>

\* faulty variant of clear_chat: the cleared list is saved, which empties the log
clear_chat_saving(map, files, c) ==
    LET m == Put(map, c, <<>>)
    IN  <<m, _save_chat(m, files, c, NoFault)[1]>>

\* faulty variant of clear_chat: the turn list of every loaded chat is emptied
clear_chat_all(map, files, c) == <<[x \in DOMAIN map \cup {c} |-> <<>>], files>>

\* clear_chat: <<chat_map, chat files>> after the call; the function has no
\* statement that touches the file
clear_chat(map, files, c) == <<Put(map, c, <<>>), files>>

\* faulty variant of add_messages_to_history: the turn is inserted at the head of the list
add_messages_to_history_front(map, files, c, messages, timestamp, rfault, wfault) ==
    LET loaded == _ensure_chat_loaded(map, files, c, rfault)
        m == Put(loaded, c, <<<<messages, timestamp>>>> \o loaded[c])
        saved == _save_chat(m, files, c, wfault)
    IN  <<m, saved[1], saved[2]>>

\* faulty variant of add_messages_to_history: a turn whose save failed is taken
\* out of the list again
add_messages_to_history_rollback(map, files, c, messages, timestamp, rfault, wfault) ==
    LET loaded == _ensure_chat_loaded(map, files, c, rfault)
        m == Put(loaded, c, Append(loaded[c], <<messages, timestamp>>))
        saved == _save_chat(m, files, c, wfault)
    IN  <<IF saved[2] = "error" THEN loaded ELSE m, saved[1], saved[2]>>

\* add_messages_to_history: <<chat_map, chat files, "ok" | "error">> after the call
add_messages_to_history(map, files, c, messages, timestamp, rfault, wfault) ==
    LET loaded == _ensure_chat_loaded(map, files, c, rfault)
        m == Put(loaded, c, Append(loaded[c], <<messages, timestamp>>))
        saved == _save_chat(m, files, c, wfault)
    IN  <<m, saved[1], saved[2]>>

\* faulty variant of set_chat_context: a blank text does not clear the turn list
set_chat_context_keep(ctxs, cfiles, map, files, c, context, fault) ==
    LET cs == Put(ctxs, c, context)
        saved == _save_context(cs, cfiles, c, fault)
    IN  <<cs, saved[1], map, saved[2], files>>

\* set_chat_context:
\* <<chat_context, context files, chat_map, "ok" | "error", chat files>>
set_chat_context(ctxs, cfiles, map, files, c, context, fault) ==
    LET cs == Put(ctxs, c, context)
        saved == _save_context(cs, cfiles, c, fault)
        cleared == IF Strip(context) = "" THEN clear_chat(map, files, c) ELSE <<map, files>>
    IN  <<cs, saved[1], cleared[1], saved[2], cleared[2]>>

\* the load of the context of this call meets an I/O error that ends it with ""
LoadContextFails(ctxs, cfiles, c, fault) ==
    c \notin DOMAIN ctxs /\ c \in DOMAIN cfiles /\ fault.kind = "open"

\* faulty variant of get_chat_context: the context file is read at every call
get_chat_context_reread(ctxs, cfiles, c, fault) ==
    LET cs == Put(ctxs, c, _load_context(cfiles, c, fault))
    IN  <<cs[c], cs>>

\* get_chat_context: <<returned text, chat_context after the call>>
get_chat_context(ctxs, cfiles, c, fault) ==
    LET cs == IF c \notin DOMAIN ctxs THEN Put(ctxs, c, _load_context(cfiles, c, fault))
              ELSE ctxs
    IN  <<cs[c], cs>>

\* faulty variant of clear_chat_context: the context file is not deleted
clear_chat_context_cache_only(ctxs, cfiles, c, fault) == <<Del(ctxs, c), cfiles, "ok">>

\* clear_chat_context: <<chat_context, context files, "ok" | "error">> after the
\* call; the fault is one of unlink()
clear_chat_context(ctxs, cfiles, c, fault) ==
    <<Del(ctxs, c),
      IF fault.kind = "none" THEN Del(cfiles, c) ELSE cfiles,
      IF fault.kind # "none" /\ c \in DOMAIN cfiles THEN "error" ELSE "ok">>

(***************************************************************************)
(* The read functions over the whole turn list.  Each returns              *)
(* <<value returned, chat_map after the call>>.                            *)
(***************************************************************************)
\* s[a:b] for 0 <= a <= b <= len(s)
Slice(s, a, b) == SubSeq(s, a + 1, b)

\* str(message): a message of the model is a text, and str() of a str is that str
str(message) == message

LowerCase == "abcdefghijklmnopqrstuvwxyz"
\* str.lower() on one character: the letters it changes
LowerOf ==
    "A" :> "a" @@ "B" :> "b" @@ "C" :> "c" @@ "D" :> "d" @@ "E" :> "e" @@ "F" :> "f" @@ "G" :> "g"
    @@ "H" :> "h" @@ "I" :> "i" @@ "J" :> "j" @@ "K" :> "k" @@ "L" :> "l" @@ "M" :> "m" @@ "N" :> "n"
    @@ "O" :> "o" @@ "P" :> "p" @@ "Q" :> "q" @@ "R" :> "r" @@ "S" :> "s" @@ "T" :> "t" @@ "U" :> "u"
    @@ "V" :> "v" @@ "W" :> "w" @@ "X" :> "x" @@ "Y" :> "y" @@ "Z" :> "z"
LowerChar(ch) == IF ch \in DOMAIN LowerOf THEN LowerOf[ch] ELSE ch

RECURSIVE lower(_)
\* str.lower()
lower(text) ==
    IF Len(text) = 0 THEN ""
    ELSE LowerChar(SubSeq(text, 1, 1)) \o lower(SubSeq(text, 2, Len(text)))

\* keyword in message_str
Contains(keyword, message_str) ==
    \/ Len(keyword) = 0
    \/ \E i \in 1..(Len(message_str) - Len(keyword) + 1) :
          SubSeq(message_str, i, i + Len(keyword) - 1) = keyword

\* [text.lower() for text in texts]
LowerAll(texts) == [i \in 1..Len(texts) |-> lower(texts[i])]

\* faulty variant of the keyword test: all() in place of any()
AllKeywords(keywords_lower, message_str) ==
    \A k \in 1..Len(keywords_lower) : Contains(keywords_lower[k], message_str)

\* any(keyword in message_str for keyword in keywords_lower)
AnyKeyword(keywords_lower, message_str) ==
    \E k \in 1..Len(keywords_lower) : Contains(keywords_lower[k], message_str)

RECURSIVE ScanMessages(_, _, _, _, _)
\* the two nested loops of lines 210-219 over the messages of the turns, from
\* message i on: the limit is tested only right after a match was appended
ScanMessages(msgs, i, keywords_lower, max_results, matches) ==
    IF i > Len(msgs) THEN matches
    ELSE LET message_str == lower(str(msgs[i]))
         IN  IF AnyKeyword(keywords_lower, message_str)
             THEN LET found == Append(matches, str(msgs[i]))
                  IN  IF Len(found) >= max_results THEN found
                      ELSE ScanMessages(msgs, i + 1, keywords_lower, max_results, found)
             ELSE ScanMessages(msgs, i + 1, keywords_lower, max_results, matches)

search_chat_history_keywords(map, files, c, keywords, max_results, fault) ==
    LET m == _ensure_chat_loaded(map, files, c, fault)
        keywords_lower == LowerAll(keywords)
    IN  <<IF m[c] = <<>> THEN <<>>
          ELSE ScanMessages(Flatten(m[c]), 1, keywords_lower, max_results, <<>>), m>>

\* faulty variant of get_chat_history_range: a non-negative end_turn is taken as the
\* exclusive bound (the + 1 of line 246 is missing)
get_chat_history_range_exclusive(map, files, c, start_turn, end_turn, fault) ==
    LET m == _ensure_chat_loaded(map, files, c, fault)
        total_turns == Len(m[c])
        start1 == IF start_turn < 0 THEN Max(0, total_turns + start_turn) ELSE start_turn
        end1 == IF end_turn < 0 THEN total_turns + end_turn + 1
                ELSE Min(end_turn, total_turns)
        start2 == Max(0, Min(start1, total_turns))
        end2 == Max(start2, Min(end1, total_turns))
    IN  <<IF m[c] = <<>> THEN <<>> ELSE Flatten(Slice(m[c], start2, end2)), m>>

get_chat_history_range(map, files, c, start_turn, end_turn, fault) ==
    LET m == _ensure_chat_loaded(map, files, c, fault)
        total_turns == Len(m[c])
        start1 == IF start_turn < 0 THEN Max(0, total_turns + start_turn) ELSE start_turn
        end1 == IF end_turn < 0 THEN total_turns + end_turn + 1
                ELSE Min(end_turn + 1, total_turns)
        start2 == Max(0, Min(start1, total_turns))
        end2 == Max(start2, Min(end1, total_turns))
    IN  <<IF m[c] = <<>> THEN <<>> ELSE Flatten(Slice(m[c], start2, end2)), m>>

\* current_time - n, n an int: n is converted to float, which raises
\* OverflowError when n is beyond the floats (a magnitude of about 1.8 * 10^308).
\* The integers of TLC end at 2^31 - 1: in the model the floats end at 10^9, and
\* an int beyond that stands for one that float() rejects.
Overflows(n) == Abs(n) > 1000000000

\* lines 276-281 of get_chat_history_by_time raise: the chat has turns and one of
\* the two subtractions overflows
ByTimeOverflows(m, c, minutes_ago_start, minutes_ago_end) ==
    /\ m[c] # <<>>
    /\ Overflows(minutes_ago_start * 60) \/ Overflows(minutes_ago_end * 60)

\* faulty variant of get_chat_history_by_time: the older boundary is exclusive
get_chat_history_by_time_strict(map, files, c, minutes_ago_start, minutes_ago_end, t, fault) ==
    LET m == _ensure_chat_loaded(map, files, c, fault)
        start_time == t - (minutes_ago_start * 60)
        end_time == t - (minutes_ago_end * 60)
        InRange(turn) == start_time < turn[2] /\ turn[2] <= end_time
    IN  <<IF m[c] = <<>> THEN <<>> ELSE Flatten(SelectSeq(m[c], InRange)), m>>

get_chat_history_by_time(map, files, c, minutes_ago_start, minutes_ago_end, t, fault) ==
    LET m == _ensure_chat_loaded(map, files, c, fault)
        start_time == t - (minutes_ago_start * 60)
        end_time == t - (minutes_ago_end * 60)
        InRange(turn) == start_time <= turn[2] /\ turn[2] <= end_time
    IN  <<IF m[c] = <<>> THEN <<>> ELSE Flatten(SelectSeq(m[c], InRange)), m>>

(***************************************************************************)
(* Actions of the store.                                                   *)
(***************************************************************************)
Worse(u) == IF u = "adds_ok" THEN "adds" ELSE u
Track(c, u) ==
    /\ usage' = [usage EXCEPT ![c] = IF @ = "reset" /\ u = "other" THEN "reset" ELSE u]
    /\ expected' = [expected EXCEPT ![c] = IF u \in {"other", "reset"} THEN <<>> ELSE @]

GetChatHistory(c, full_history, fault) ==
    LET r == get_chat_history(chat_map, chat_file, c, full_history, now, fault)
        rerr == LoadFails(chat_map, chat_file, c, fault)
    IN  /\ fault.kind = "open" => rerr
        /\ chat_map' = r[2]
        /\ ret' = Call("get_chat_history", c, "", IF rerr THEN "error" ELSE "ok")
        /\ Track(c, IF rerr THEN "other" ELSE usage[c])
        /\ UNCHANGED <<chat_context, chat_file, context_file, now, fitVars, query, botVars>>

ClearChat(c) ==
    LET r == clear_chat(chat_map, chat_file, c)
    IN  /\ chat_map' = r[1]
        /\ chat_file' = r[2]
        /\ ret' = Call("clear_chat", c, "", "ok")
        /\ Track(c, "other")
        /\ UNCHANGED <<chat_context, context_file, now, fitVars, query, botVars>>

AddMessagesToHistory(c, messages, timestamp, rfault, wfault) ==
    LET r == add_messages_to_history(chat_map, chat_file, c, messages, timestamp,
                                     rfault, wfault)
        rerr == LoadFails(chat_map, chat_file, c, rfault)
        u == IF rerr \/ usage[c] = "reset" THEN "other"
             ELSE IF r[3] = "error" THEN Worse(usage[c]) ELSE usage[c]
    IN  /\ Len(r[1][c]) <= MaxTurns
        /\ wfault.at <= Len(r[1][c])
        /\ rfault.kind = "open" => rerr
        /\ chat_map' = r[1]
        /\ chat_file' = r[2]
        /\ ret' = Call("add_messages_to_history", c, "",
                       IF rerr THEN "error" ELSE r[3])
        /\ usage' = [usage EXCEPT ![c] = u]
        /\ expected' = [expected EXCEPT ![c] = IF u = "other" THEN <<>> ELSE @ \o messages]
        /\ UNCHANGED <<chat_context, context_file, now, fitVars, query, botVars>>

GetChatContext(c, fault) ==
    LET r == get_chat_context(chat_context, context_file, c, fault)
        rerr == LoadContextFails(chat_context, context_file, c, fault)
    IN  /\ fault.kind = "open" => rerr
        /\ chat_context' = r[2]
        /\ ret' = Call("get_chat_context", c, "", IF rerr THEN "error" ELSE "ok")
        /\ UNCHANGED <<chat_map, chat_file, context_file, now, usage, expected, fitVars, query, botVars>>

SetChatContext(c, context, fault) ==
    LET r == set_chat_context(chat_context, context_file, chat_map, chat_file, c, context,
                              fault)
    IN  /\ chat_context' = r[1]
        /\ context_file' = r[2]
        /\ chat_map' = r[3]
        /\ chat_file' = r[5]
        /\ ret' = Call("set_chat_context", c, context, r[4])
        /\ Track(c, IF Strip(context) = "" THEN "reset" ELSE "other")
        /\ UNCHANGED <<now, fitVars, query, botVars>>

ClearChatContext(c, fault) ==
    LET r == clear_chat_context(chat_context, context_file, c, fault)
    IN  /\ chat_context' = r[1]
        /\ context_file' = r[2]
        /\ ret' = Call("clear_chat_context", c, "", r[3])
        /\ Track(c, "other")
        /\ UNCHANGED <<chat_map, chat_file, now, fitVars, query, botVars>>

\* the slots for calls of process_message that are in flight together
Slots == {1, 2}
\* a call slot with no call in it
NoTask == [pc |-> "idle", chat |-> 0, timestamp |-> 0, new_messages |-> <<>>,
           kept |-> TRUE, overlap |-> FALSE]
\* the bot before its module is imported
NoAuth == [up |-> FALSE]

(***************************************************************************)
(* The environment: the clock, and a process restart (the module is        *)
(* imported again: both maps are empty, the files stay).                   *)
(***************************************************************************)
Tick ==
    /\ now < TickStep
    /\ now' = now + TickStep
    /\ UNCHANGED <<chat_map, chat_context, chat_file, context_file, ret, usage, expected, fitVars, query, botVars>>

Restart ==
    /\ chat_map' = EmptyMap
    /\ chat_context' = EmptyMap
    /\ ret' = Call("restart", 0, "", "ok")
    /\ usage' = [c \in Chats |-> IF usage[c] = "adds_ok" THEN "adds_ok" ELSE "other"]
    /\ expected' = [c \in Chats |-> IF usage[c] = "adds_ok" THEN expected[c] ELSE <<>>]
    /\ tasks' = EmptyMap       \* the coroutines end with the process
    /\ UNCHANGED <<chat_file, context_file, now, fitVars, query, overlapped, auth>>

StoreInit ==
    /\ chat_map = EmptyMap
    /\ chat_context = EmptyMap
    /\ chat_file = EmptyMap
    /\ context_file = EmptyMap
    /\ now = 0
    /\ ret = Call("import", 0, "", "ok")
    /\ usage = [c \in Chats |-> "adds_ok"]
    /\ expected = [c \in Chats |-> <<>>]

StoreNext(chats) ==
    \/ \E c \in chats, f \in BOOLEAN, fault \in {NoFault, OpenFault} :
          GetChatHistory(c, f, fault)
    \/ \E c \in chats : ClearChat(c)
    \/ \E c \in chats, ms \in MessageLists, rf \in {NoFault, OpenFault}, wf \in Faults :
          AddMessagesToHistory(c, ms, now, rf, wf)
    \/ \E c \in chats, fault \in {NoFault, OpenFault} : GetChatContext(c, fault)
    \/ \E c \in chats, ctx \in SetContexts : SetChatContext(c, ctx, NoFault)
    \/ \E c \in chats : ClearChatContext(c, NoFault)
    \/ Tick
    \/ Restart

(***************************************************************************)
(* context_manager.py.                                                     *)
(*                                                                         *)
(* Texts are kept by their size.  The system prompt, the user input and    *)
(* str(msg) of a history message are lengths in characters.  The context   *)
(* is the sequence of the lengths of its sentences, i.e. of the pieces     *)
(* context.split('. ') yields (the empty text is <<0>>); sentences carry   *)
(* no white space at their ends.                                           *)
(***************************************************************************)
SAFETY_MARGIN == 1000
DEFAULT_CONTEXT_LIMIT == 8192
KnownModels == {"groq:llama-3.1-8b-instant", "anthropic:claude-sonnet-4-latest",
                "openai:gpt-4o", "openai:gpt-4o-mini"}
MODEL_LIMITS(m) ==
    CASE m = "groq:llama-3.1-8b-instant" -> 8192
      [] m = "anthropic:claude-sonnet-4-latest" -> 200000
      [] m = "openai:gpt-4o" -> 128000
      [] m = "openai:gpt-4o-mini" -> 128000

get_model_limit(model_identifier) ==
    IF model_identifier \in KnownModels THEN MODEL_LIMITS(model_identifier)
    ELSE DEFAULT_CONTEXT_LIMIT

\* count_tokens on a text of n characters: the estimate len(text) // 4
count_tokens(n) == n \div 4

RECURSIVE SumSeq(_)
SumSeq(s) == IF s = <<>> THEN 0 ELSE Head(s) + SumSeq(Tail(s))

\* len("\n".join(str(msg) for msg in chat_history))
JoinLen(chat_history) ==
    IF chat_history = <<>> THEN 0 ELSE SumSeq(chat_history) + (Len(chat_history) - 1)

\* len(context), the sentences being joined again by ". "
CtxLen(context) == SumSeq(context) + 2 * (Len(context) - 1)


\* faulty variant of analyze_context_usage: a bundle that fills the limit exactly
\* is said to need compression (remaining <= 0)
analyze_context_usage_full(system_prompt, context, chat_history, user_input, model_identifier) ==
    LET system_tokens == count_tokens(system_prompt)
        context_tokens == IF CtxLen(context) # 0 THEN count_tokens(CtxLen(context)) ELSE 0
        user_tokens == count_tokens(user_input)
        history_tokens == count_tokens(JoinLen(chat_history))
        total_tokens == system_tokens + context_tokens + history_tokens + user_tokens
        limit == get_model_limit(model_identifier)
        available == limit - SAFETY_MARGIN
        remaining == available - total_tokens
    IN  [total_tokens |-> total_tokens, limit |-> available, remaining |-> remaining,
         needs_compression |-> remaining <= 0]

analyze_context_usage(system_prompt, context, chat_history, user_input, model_identifier) ==
    LET system_tokens == count_tokens(system_prompt)
        context_tokens == IF CtxLen(context) # 0 THEN count_tokens(CtxLen(context)) ELSE 0
        user_tokens == count_tokens(user_input)
        history_tokens == count_tokens(JoinLen(chat_history))
        total_tokens == system_tokens + context_tokens + history_tokens + user_tokens
        limit == get_model_limit(model_identifier)
        available == limit - SAFETY_MARGIN
        remaining == available - total_tokens
    IN  [total_tokens |-> total_tokens, limit |-> available, remaining |-> remaining,
         needs_compression |-> remaining < 0]

RECURSIVE compress_chat_history_floor1(_, _, _)
\* faulty variant of compress_chat_history: the floor is 1 item (len > 1)
compress_chat_history_floor1(chat_history, target_reduction, context) ==
    IF chat_history # <<>> /\ target_reduction > 0
       /\ ~(count_tokens(JoinLen(chat_history)) <= target_reduction)
       /\ Len(chat_history) > 1
    THEN compress_chat_history_floor1(Tail(chat_history), target_reduction, context)
    ELSE chat_history

RECURSIVE compress_chat_history_newest(_, _, _)
\* faulty variant of compress_chat_history: pop() in place of pop(0), the newest item goes
compress_chat_history_newest(chat_history, target_reduction, context) ==
    IF chat_history # <<>> /\ target_reduction > 0
       /\ ~(count_tokens(JoinLen(chat_history)) <= target_reduction)
       /\ Len(chat_history) > 2
    THEN compress_chat_history_newest(SubSeq(chat_history, 1, Len(chat_history) - 1),
                                      target_reduction, context)
    ELSE chat_history

RECURSIVE compress_chat_history(_, _, _)
\* the while loop of lines 84-97 (the argument is compressed_history)
compress_chat_history(chat_history, target_reduction, context) ==
    IF chat_history # <<>> /\ target_reduction > 0
       /\ ~(count_tokens(JoinLen(chat_history)) <= target_reduction)
       /\ Len(chat_history) > 2
    THEN compress_chat_history(Tail(chat_history), target_reduction, context)
    ELSE chat_history

RECURSIVE KeepFrom(_, _, _, _)
\* the loop of lines 118-123 over reversed(sentences): sentence i is next, clen is
\* len(compressed); the result is the index of the first sentence kept
KeepFrom(sentences, i, clen, max_tokens) ==
    IF i >= 1 /\ count_tokens(sentences[i] + 2 + clen) <= max_tokens
    THEN KeepFrom(sentences, i - 1, sentences[i] + 2 + clen, max_tokens)
    ELSE i + 1

RECURSIVE Truncate(_, _)
\* context[:n] as sentences
Truncate(context, n) ==
    IF n <= context[1] \/ Len(context) = 1 THEN <<Min(n, context[1])>>
    ELSE IF n = context[1] + 1 THEN <<context[1] + 1>>
    ELSE <<context[1]>> \o Truncate(Tail(context), n - context[1] - 2)

\* int(len(context) * (max_tokens / current_tokens)), computed in floating point:
\* when the quotient is a whole number q the rounding of the division and of the
\* product can leave the result just below q, and int() then yields q - 1; fp is
\* that rounding (0: exact, 1: just below), an input the arithmetic decides
target_length_of(length, max_tokens, current_tokens, fp) ==
    LET q == (length * max_tokens) \div current_tokens
    IN  IF (length * max_tokens) % current_tokens = 0 /\ q > 0 THEN q - fp ELSE q

\* compress_context: [text, raised]; raised is the ZeroDivisionError of line 112
compress_context(context, max_tokens, fp) ==
    LET current_tokens == count_tokens(CtxLen(context))
        target_length == target_length_of(CtxLen(context), max_tokens, current_tokens, fp)
        k == KeepFrom(context, Len(context), 0, max_tokens)
        n == Len(context)
    IN  IF CtxLen(context) = 0 THEN [text |-> context, raised |-> FALSE]
        ELSE IF current_tokens <= max_tokens THEN [text |-> context, raised |-> FALSE]
        ELSE IF current_tokens = 0 THEN [text |-> context, raised |-> TRUE]
        ELSE IF n > 1 /\ k <= n
             \* compressed.strip(): the kept sentences, each followed by ". ",
             \* less the last blank
             THEN [text |-> [i \in 1..(n - k + 1) |->
                                IF i = n - k + 1 THEN context[n] + 1 ELSE context[k + i - 1]],
                   raised |-> FALSE]
        ELSE [text |-> Truncate(context, target_length), raised |-> FALSE]

\* faulty variant of the final verification: an overflow that is left is raised
final_verification_raises(system_prompt, compressed_context, compressed_history, user_input, model_identifier, raised) ==
    [context |-> compressed_context, history |-> compressed_history,
     raised |-> raised \/ analyze_context_usage(system_prompt, compressed_context,
                                                compressed_history, user_input,
                                                model_identifier).needs_compression]

\* lines 184-191: the final verification only logs
final_verification(system_prompt, compressed_context, compressed_history, user_input, model_identifier, raised) ==
    [context |-> compressed_context, history |-> compressed_history, raised |-> raised]

\* faulty variant of the two stages: the tokens removed from the history are not
\* taken off tokens_to_remove (line 170 is missing)
compress_stages_no_credit(system_prompt, context, chat_history, user_input, model_identifier, fp) ==
    LET info == analyze_context_usage(system_prompt, context, chat_history, user_input,
                                      model_identifier)
        tokens_to_remove == Abs(info.remaining)
        history_tokens == count_tokens(JoinLen(chat_history))
        stage1 == history_tokens > 0 /\ tokens_to_remove > 0
        history_reduction == Min(tokens_to_remove, history_tokens \div 2)
        compressed_history ==
            IF stage1 THEN compress_chat_history(chat_history, history_reduction, context)
            ELSE chat_history
        tokens_left == tokens_to_remove
        context_tokens == count_tokens(CtxLen(context))
        stage2 == tokens_left > 0 /\ CtxLen(context) # 0 /\ context_tokens > 0
        target_context_tokens == Max(context_tokens - tokens_left, context_tokens \div 4)
        cc == IF stage2 THEN compress_context(context, target_context_tokens, fp)
              ELSE [text |-> context, raised |-> FALSE]
    IN  final_verification(system_prompt, cc.text, compressed_history, user_input,
                           model_identifier, cc.raised)

\* lines 148-191: the two stages
compress_stages(system_prompt, context, chat_history, user_input, model_identifier, fp) ==
    LET info == analyze_context_usage(system_prompt, context, chat_history, user_input,
                                      model_identifier)
        tokens_to_remove == Abs(info.remaining)
        history_tokens == count_tokens(JoinLen(chat_history))
        stage1 == history_tokens > 0 /\ tokens_to_remove > 0
        history_reduction == Min(tokens_to_remove, history_tokens \div 2)
        compressed_history ==
            IF stage1 THEN compress_chat_history(chat_history, history_reduction, context)
            ELSE chat_history
        new_history_tokens == count_tokens(JoinLen(compressed_history))
        tokens_left == IF stage1 THEN tokens_to_remove - (history_tokens - new_history_tokens)
                       ELSE tokens_to_remove
        context_tokens == count_tokens(CtxLen(context))
        stage2 == tokens_left > 0 /\ CtxLen(context) # 0 /\ context_tokens > 0
        target_context_tokens == Max(context_tokens - tokens_left, context_tokens \div 4)
        cc == IF stage2 THEN compress_context(context, target_context_tokens, fp)
              ELSE [text |-> context, raised |-> FALSE]
    IN  final_verification(system_prompt, cc.text, compressed_history, user_input,
                           model_identifier, cc.raised)

\* faulty variant of ensure_context_fits: no early return for a bundle that fits
ensure_context_fits_always(system_prompt, context, chat_history, user_input, model_identifier, fp) ==
    compress_stages(system_prompt, context, chat_history, user_input, model_identifier, fp)

\* ensure_context_fits: [context, history, raised]
ensure_context_fits(system_prompt, context, chat_history, user_input, model_identifier, fp) ==
    LET info == analyze_context_usage(system_prompt, context, chat_history, user_input,
                                      model_identifier)
    IN  IF ~info.needs_compression
        THEN [context |-> context, history |-> chat_history, raised |-> FALSE]
        ELSE compress_stages(system_prompt, context, chat_history, user_input,
                             model_identifier, fp)

(***************************************************************************)
(* SpecFit: ensure_context_fits applied to a bundle, then to its own       *)
(* output.                                                                 *)
(***************************************************************************)
\* the history of a bundle has at most this many messages
MaxHist == 4

\* sizes of str(msg), in characters: 100, 2500, 8000 and 130000 tokens
MsgLens == {400, 10000, 32000, 520000}
SystemPrompts == {40}
UserInputs == {0, 400}
FitContexts == {<<0>>, <<3>>, <<2000>>, <<1200, 1200, 1600>>, <<30000>>}
Models == {"groq:llama-3.1-8b-instant", "openai:gpt-4o", "unknown:model"}
Histories == UNION {[1..n -> MsgLens] : n \in 0..MaxHist}

NoBundle == [system_prompt |-> 0, context |-> <<0>>, chat_history |-> <<>>,
             user_input |-> 0, model_identifier |-> ""]
NoResult == [context |-> <<0>>, history |-> <<>>, raised |-> FALSE]

FitIdle ==
    /\ fit_pc = "idle"
    /\ fit_in = NoBundle
    /\ fit_out = NoResult
    /\ fit_again = NoResult

FitInit ==
    /\ fit_pc = "in"
    /\ fit_in \in [system_prompt : SystemPrompts, context : FitContexts,
                   chat_history : Histories, user_input : UserInputs,
                   model_identifier : Models]
    /\ fit_out = NoResult
    /\ fit_again = NoResult

EnsureContextFits(fp) ==
    /\ fit_pc = "in"
    /\ fit_out' = ensure_context_fits(fit_in.system_prompt, fit_in.context,
                                      fit_in.chat_history, fit_in.user_input,
                                      fit_in.model_identifier, fp)
    /\ fit_pc' = "out"
    /\ UNCHANGED <<fit_in, fit_again, storeVars, query, botVars>>

EnsureContextFitsAgain(fp) ==
    /\ fit_pc = "out"
    /\ ~fit_out.raised
    /\ fit_again' = ensure_context_fits(fit_in.system_prompt, fit_out.context,
                                        fit_out.history, fit_in.user_input,
                                        fit_in.model_identifier, fp)
    /\ fit_pc' = "again"
    /\ UNCHANGED <<fit_in, fit_out, storeVars, query, botVars>>

FitNext ==
    \/ \E fp \in {0, 1} : EnsureContextFits(fp)
    \/ \E fp \in {0, 1} : EnsureContextFitsAgain(fp)

(***************************************************************************)
(* SpecBudget: analyze_context_usage and compress_context applied to a     *)
(* bundle; the value returned is kept in `query`.                          *)
(***************************************************************************)
\* sizes of the system prompt: 10 tokens, and the 7192 and 7193 tokens that fill
\* and overfill the limit of an 8192-token model
BudgetSystemPrompts == {40, 28768, 28772}
BudgetModels == KnownModels \cup {"unknown:model", ""}
BudgetHistories == UNION {[1..n -> MsgLens] : n \in 0..2}
\* max_tokens of compress_context
MaxTokens == {0, 100, 350, 400, 1000}

BudgetInit ==
    /\ fit_pc = "in"
    /\ fit_in \in [system_prompt : BudgetSystemPrompts, context : FitContexts,
                   chat_history : BudgetHistories, user_input : UserInputs,
                   model_identifier : BudgetModels]
    /\ fit_out = NoResult
    /\ fit_again = NoResult

AnalyzeContextUsage ==
    /\ fit_pc = "in"
    /\ query' = [op |-> "analyze_context_usage", args |-> <<>>,
                 val |-> analyze_context_usage(fit_in.system_prompt, fit_in.context,
                                               fit_in.chat_history, fit_in.user_input,
                                               fit_in.model_identifier),
                 first |-> TRUE]
    /\ fit_pc' = "out"
    /\ UNCHANGED <<fit_in, fit_out, fit_again, storeVars, botVars>>

CompressContext(max_tokens, fp) ==
    /\ fit_pc = "in"
    /\ query' = [op |-> "compress_context", args |-> <<max_tokens>>,
                 val |-> compress_context(fit_in.context, max_tokens, fp),
                 first |-> TRUE]
    /\ fit_pc' = "out"
    /\ UNCHANGED <<fit_in, fit_out, fit_again, storeVars, botVars>>

BudgetNext ==
    \/ AnalyzeContextUsage
    \/ \E max_tokens \in MaxTokens, fp \in {0, 1} : CompressContext(max_tokens, fp)

(***************************************************************************)
(* SpecQuery: the read functions applied to a chat whose turn list is      *)
(* drawn from a bounded set.  The chat is either loaded in chat_map or     *)
(* still only in its log (the state after a restart).  Timestamps are the  *)
(* callers' (add_messages_to_history stores the one it is given), so a     *)
(* turn list need not be ordered by time.                                  *)
(***************************************************************************)
\* the longest turn list of SpecQuery (MAX_RECENT_MESSAGES + 2)
MaxQueryTurns == 17

\* time.time() at the calls of SpecQuery, in seconds
QueryNow == 3600

\* the messages of the i-th turn of a list
QueryMessages(i) ==
    LET tag == SubSeq(LowerCase, i, i)
    IN  CASE i % 3 = 1 -> <<"Ask " \o tag>>
          [] i % 3 = 2 -> <<"ask " \o tag, "Re: " \o tag>>
          [] OTHER     -> <<"note " \o tag>>

\* the turn list whose i-th turn is ages[i] seconds old at QueryNow
TurnsAged(ages) == [i \in 1..Len(ages) |-> <<QueryMessages(i), QueryNow - ages[i]>>]

\* ages, in seconds, oldest turn first unless said otherwise
QueryAges ==
    {<<>>,
     <<1200, 720, 540, 300, 0>>,
     <<0, 300, 540, 720, 1200>>,            \* stored newest first
     <<600, 599>>,                          \* at the edge of the recent window
     <<1801, 1800, 0>>,                     \* at the edge of a 30 minute range
     <<30, 0 - 60>>,                        \* a timestamp ahead of the clock
     [i \in 1..10 |-> (10 - i) * 60]}
    \cup {[i \in 1..n |-> IF i <= k THEN 1200 ELSE 0] :
             n \in MAX_RECENT_MESSAGES..MaxQueryTurns, k \in {0, 1, 2, 3}}
    \cup {[i \in 1..n |-> IF i <= k THEN 0 ELSE 1200] :
             n \in MAX_RECENT_MESSAGES..MaxQueryTurns,
             k \in {MAX_RECENT_MESSAGES - 1, MAX_RECENT_MESSAGES}}

QueryTurnLists == {TurnsAged(ages) : ages \in QueryAges}

\* the log a turn list leaves when every write succeeded
LogOf(turns) == [i \in 1..Len(turns) |-> DumpLine(turns[i])]

StartTurns == {0 - 30, 0 - 3, 0, 1, 20}
EndTurns == {0 - 11, 0 - 1, 0, 9, 20}
\* 20000000 stands for a number of minutes beyond the floats (see Overflows)
MinutesAgoStart == {0 - 1, 0, 10, 30, 20000000}
MinutesAgoEnd == {0, 9, 30}
KeywordLists == {<<>>, <<"ask">>, <<"RE:">>, <<"zz", "k b">>, <<"">>}
MaxResults == {0, 1, 3, 10}

\* `first` tells that the call found the chat not loaded and read its log
NoQuery == [op |-> "none", args |-> <<>>, val |-> <<>>, first |-> TRUE]
Returns(op, c, args, val) ==
    [op |-> op, args |-> args, val |-> val, first |-> c \notin DOMAIN chat_map]
Outcome(c, fault) == IF LoadFails(chat_map, chat_file, c, fault) THEN "error" ELSE "ok"
\* SpecQuery follows a chat up to the call after the one that loaded it, or up
\* to a call that raised
MayCall == query.first /\ ret.io # "raised"
\* a fault is injected only into a call that reads the log
FaultMet(c, fault) ==
    fault.kind # "none" => c \notin DOMAIN chat_map /\ c \in DOMAIN chat_file
\* the call ends with the exception of the load
Raised(op, c, args) ==
    /\ chat_map' = chat_map
    /\ ret' = Call(op, c, "", "raised")
    /\ query' = Returns(op, c, args, <<>>)

QueryIdle == query = NoQuery

QueryInit ==
    /\ \E turns \in QueryTurnLists, loaded \in BOOLEAN :
          /\ chat_map = IF loaded THEN Put(EmptyMap, 1, turns) ELSE EmptyMap
          /\ chat_file = IF turns = <<>> THEN EmptyMap ELSE Put(EmptyMap, 1, LogOf(turns))
    /\ chat_context = EmptyMap
    /\ context_file = EmptyMap
    /\ now = QueryNow
    /\ ret = Call("import", 0, "", "ok")
    /\ usage = [c \in Chats |-> "other"]
    /\ expected = [c \in Chats |-> <<>>]
    /\ query = NoQuery

\* get_chat_history, its returned value kept
GetChatHistoryCall(c, full_history, fault) ==
    /\ MayCall
    /\ FaultMet(c, fault)
    /\ IF ExistsRaises(chat_map, c, fault)
       THEN Raised("get_chat_history", c, <<full_history>>)
       ELSE LET r == get_chat_history(chat_map, chat_file, c, full_history, now, fault)
            IN  /\ chat_map' = r[2]
                /\ ret' = Call("get_chat_history", c, "", Outcome(c, fault))
                /\ query' = Returns("get_chat_history", c, <<full_history>>, r[1])
    /\ UNCHANGED <<chat_context, chat_file, context_file, now, usage, expected, fitVars, botVars>>

GetChatHistoryRange(c, start_turn, end_turn, fault) ==
    /\ MayCall
    /\ FaultMet(c, fault)
    /\ IF ExistsRaises(chat_map, c, fault)
       THEN Raised("get_chat_history_range", c, <<start_turn, end_turn>>)
       ELSE LET r == get_chat_history_range(chat_map, chat_file, c, start_turn, end_turn, fault)
            IN  /\ chat_map' = r[2]
                /\ ret' = Call("get_chat_history_range", c, "", Outcome(c, fault))
                /\ query' = Returns("get_chat_history_range", c, <<start_turn, end_turn>>, r[1])
    /\ UNCHANGED <<chat_context, chat_file, context_file, now, usage, expected, fitVars, botVars>>

GetChatHistoryByTime(c, minutes_ago_start, minutes_ago_end, fault) ==
    /\ MayCall
    /\ FaultMet(c, fault)
    /\ IF ExistsRaises(chat_map, c, fault)
       THEN Raised("get_chat_history_by_time", c, <<minutes_ago_start, minutes_ago_end>>)
       ELSE IF ByTimeOverflows(_ensure_chat_loaded(chat_map, chat_file, c, fault), c,
                               minutes_ago_start, minutes_ago_end)
       \* the OverflowError leaves the function after the chat was loaded
       THEN /\ chat_map' = _ensure_chat_loaded(chat_map, chat_file, c, fault)
            /\ ret' = Call("get_chat_history_by_time", c, "", "raised")
            /\ query' = Returns("get_chat_history_by_time", c, <<minutes_ago_start, minutes_ago_end>>, <<>>)
       ELSE LET r == get_chat_history_by_time(chat_map, chat_file, c, minutes_ago_start,
                                              minutes_ago_end, now, fault)
            IN  /\ chat_map' = r[2]
                /\ ret' = Call("get_chat_history_by_time", c, "", Outcome(c, fault))
                /\ query' = Returns("get_chat_history_by_time", c, <<minutes_ago_start, minutes_ago_end>>, r[1])
    /\ UNCHANGED <<chat_context, chat_file, context_file, now, usage, expected, fitVars, botVars>>

SearchChatHistoryKeywords(c, keywords, max_results, fault) ==
    /\ MayCall
    /\ FaultMet(c, fault)
    /\ IF ExistsRaises(chat_map, c, fault)
       THEN Raised("search_chat_history_keywords", c, <<keywords, max_results>>)
       ELSE LET r == search_chat_history_keywords(chat_map, chat_file, c, keywords, max_results,
                                                  fault)
            IN  /\ chat_map' = r[2]
                /\ ret' = Call("search_chat_history_keywords", c, "", Outcome(c, fault))
                /\ query' = Returns("search_chat_history_keywords", c, <<keywords, max_results>>, r[1])
    /\ UNCHANGED <<chat_context, chat_file, context_file, now, usage, expected, fitVars, botVars>>

\* the faults a load can meet
QueryFaults == {NoFault, OpenFault} \cup StatFaults

QueryNext ==
    \/ \E c \in SpecChats, f \in BOOLEAN, fault \in QueryFaults :
          GetChatHistoryCall(c, f, fault)
    \/ \E c \in SpecChats, s \in StartTurns, e \in EndTurns, fault \in QueryFaults :
          GetChatHistoryRange(c, s, e, fault)
    \/ \E c \in SpecChats, a \in MinutesAgoStart, b \in MinutesAgoEnd, fault \in QueryFaults :
          GetChatHistoryByTime(c, a, b, fault)
    \/ \E c \in SpecChats, ks \in KeywordLists, n \in MaxResults, fault \in QueryFaults :
          SearchChatHistoryKeywords(c, ks, n, fault)

(***************************************************************************)
(* SpecContext: get_chat_context, set_chat_context and clear_chat_context  *)
(* on a chat that also takes turns, across restarts.  The context file can *)
(* fail to open, to be written and to be deleted.                          *)
(***************************************************************************)
\* f.write of the context fails: the file was truncated by open(.., 'w')
ContextWriteFault == [kind |-> "write", at |-> 1, partial |-> FALSE]

ContextNext ==
    \/ \E c \in SpecChats, fault \in {NoFault, OpenFault} : GetChatContext(c, fault)
    \/ \E c \in SpecChats, ctx \in Contexts, fault \in {NoFault, OpenFault, ContextWriteFault} :
          SetChatContext(c, ctx, fault)
    \/ \E c \in SpecChats, fault \in {NoFault, OpenFault} : ClearChatContext(c, fault)
    \/ \E c \in SpecChats : AddMessagesToHistory(c, <<"a">>, now, NoFault, NoFault)
    \/ \E c \in SpecChats : GetChatHistory(c, TRUE, NoFault)
    \/ Restart

(***************************************************************************)
(* SpecPair: the functions of the store called on the chats 1 and 2 in     *)
(* every order, the process restarting in between.  The calls of the two   *)
(* chats interleave as whole calls: the functions are synchronous and have *)
(* no await.                                                               *)
(***************************************************************************)
PairNext ==
    \/ \E c \in Chats, f \in BOOLEAN : GetChatHistory(c, f, NoFault)
    \/ \E c \in Chats : ClearChat(c)
    \/ \E c \in Chats, wf \in {NoFault, OpenFault} :
          AddMessagesToHistory(c, <<"a">>, now, NoFault, wf)
    \/ \E c \in Chats : GetChatContext(c, NoFault)
    \/ \E c \in Chats, ctx \in SetContexts : SetChatContext(c, ctx, NoFault)
    \/ \E c \in Chats : ClearChatContext(c, NoFault)
    \/ Restart

(***************************************************************************)
(* SpecAuth: the allow-list of the bot.  Four modules read the environment *)
(* variable ALLOWED_CHAT_IDS: make_bot/run.py, app/auth.py and run.py      *)
(* parse it at import and wrap their handlers in a decorator;              *)
(* make_bot/config.py parses it in _load_telegram_bot_config.  A value of  *)
(* the variable is a sequence of characters, <<>> when it is unset.        *)
(***************************************************************************)
AuthModules == {"make_bot/run.py", "app/auth.py", "run.py", "make_bot/config.py"}
EnvValues ==
    { <<>>,
      <<"1">>, <<"1", ",", "2">>, <<"1", ",", " ", "2">>, <<" ", "2", " ">>,
      <<"[", "1", ",", " ", "2", "]">>, <<"[", "]">>,
      <<"1", ",">>, <<",">>, <<" ">>, <<"1", " ", "2">>, <<"a">>, <<"-", "1">>, <<"-">> }
AuthChatIds == Chats
NotAuthorized == "Sorry, you are not authorized to use this bot."

DigitOf == "0" :> 0 @@ "1" :> 1 @@ "2" :> 2 @@ "3" :> 3 @@ "4" :> 4 @@ "5" :> 5 @@ "6" :> 6 @@ "7" :> 7 @@ "8" :> 8 @@ "9" :> 9

RECURSIVE Split(_, _)
\* str.split(sep): the pieces between the separators, empty pieces included
Split(text, sep) ==
    IF \A i \in 1..Len(text) : text[i] # sep THEN <<text>>
    ELSE LET i == CHOOSE k \in 1..Len(text) : text[k] = sep /\ \A j \in 1..(k - 1) : text[j] # sep
         IN  <<SubSeq(text, 1, i - 1)>> \o Split(SubSeq(text, i + 1, Len(text)), sep)

RECURSIVE StripChars(_, _)
\* str.strip(chars): the characters of chars taken off both ends; str.strip()
\* is StripChars(text, {" "}) over the characters of EnvValues
StripChars(text, chars) ==
    IF text = <<>> THEN text
    ELSE IF text[1] \in chars THEN StripChars(Tail(text), chars)
    ELSE IF text[Len(text)] \in chars THEN StripChars(SubSeq(text, 1, Len(text) - 1), chars)
    ELSE text

\* str.replace(ch, '')
Remove(text, ch) == SelectSeq(text, LAMBDA x : x # ch)

RECURSIVE Digits(_, _)
Digits(text, acc) == IF text = <<>> THEN acc ELSE Digits(Tail(text), 10 * acc + DigitOf[Head(text)])

\* int(str) returns (does not raise ValueError): optional blanks around an
\* optional sign and one or more digits
IsInt(text) ==
    LET t == StripChars(text, {" "})
        d == IF t # <<>> /\ t[1] = "-" THEN Tail(t) ELSE t
    IN  d # <<>> /\ \A i \in 1..Len(d) : d[i] \in DOMAIN DigitOf
IntOf(text) ==
    LET t == StripChars(text, {" "})
    IN  IF t[1] = "-" THEN 0 - Digits(Tail(t), 0) ELSE Digits(t, 0)

Items(seq) == {seq[i] : i \in 1..Len(seq)}

\* make_bot/run.py lines 22-36: a value that is not a comma-separated list of
\* integers leaves the set empty (ValueError is caught)
ALLOWED_CHAT_IDS_make_bot_run(env) ==
    IF env = <<>> THEN [ok |-> TRUE, ids |-> {}]
    ELSE LET parts == Items(Split(env, ","))
         IN  IF \A x \in parts : IsInt(StripChars(x, {" "}))
             THEN [ok |-> TRUE, ids |-> {IntOf(StripChars(x, {" "})) : x \in parts}]
             ELSE [ok |-> TRUE, ids |-> {}]

\* make_bot/config.py lines 52-72: the same parse, ValueError is raised again
_load_telegram_bot_config(env) ==
    IF env = <<>> THEN [ok |-> TRUE, ids |-> {}]
    ELSE LET parts == Items(Split(env, ","))
         IN  IF \A x \in parts : IsInt(StripChars(x, {" "}))
             THEN [ok |-> TRUE, ids |-> {IntOf(StripChars(x, {" "})) : x \in parts}]
             ELSE [ok |-> FALSE, ids |-> {}]

\* app/auth.py lines 7-8 and run.py lines 20-21: brackets and blanks are taken
\* off, empty pieces are skipped, ValueError is not caught (the import fails)
ALLOWED_CHAT_IDS_app(env) ==
    IF env = <<>> THEN [ok |-> TRUE, ids |-> {}]
    ELSE LET parts == {x \in Items(Split(Remove(StripChars(env, {"[", "]"}), " "), ",")) :
                          StripChars(x, {" "}) # <<>>}
         IN  IF \A x \in parts : IsInt(StripChars(x, {" "}))
             THEN [ok |-> TRUE, ids |-> {IntOf(StripChars(x, {" "})) : x \in parts}]
             ELSE [ok |-> FALSE, ids |-> {}]

ParseAllowed(module, env) ==
    CASE module = "make_bot/run.py" -> ALLOWED_CHAT_IDS_make_bot_run(env)
      [] module = "make_bot/config.py" -> _load_telegram_bot_config(env)
      [] OTHER -> ALLOWED_CHAT_IDS_app(env)

\* make_bot/run.py lines 47-49
is_authorized(ids, chat_id) == chat_id \in ids

\* the condition under which the decorator calls the handler it wraps:
\* authorized_only of make_bot/run.py (lines 52-64), is_user_authorized of
\* app/auth.py (lines 12-21) and of run.py (lines 43-52)
authorized_only(ids, chat_id) == is_authorized(ids, chat_id)
is_user_authorized_app(ids, chat_id) == ~(ids # {} /\ chat_id \notin ids)
is_user_authorized_run(ids, chat_id) == chat_id \in ids

Calls(module, ids, chat_id) ==
    CASE module = "make_bot/run.py" -> authorized_only(ids, chat_id)
      [] module = "app/auth.py" -> is_user_authorized_app(ids, chat_id)
      [] module = "run.py" -> is_user_authorized_run(ids, chat_id)

\* the handlers a module wraps; the configuration module has none
Handlers(module) ==
    CASE module = "make_bot/run.py" -> {"start", "new_chat", "handle_message"}
      [] module = "app/auth.py" -> {"start", "message_handler"}
      [] module = "run.py" -> {"start", "handle_message"}
      [] OTHER -> {}

\* the module is imported (the configuration is loaded) with the variable set
\* to env; the bot is up unless that raised
Import(module, env) ==
    /\ auth = NoAuth
    /\ LET parsed == ParseAllowed(module, env)
       IN  /\ auth' = [module |-> module, env |-> env, ALLOWED_CHAT_IDS |-> parsed.ids,
                       up |-> parsed.ok, handler |-> "", chat_id |-> 0,
                       body |-> FALSE, agent |-> FALSE, reply |-> ""]
           /\ ret' = Call("import", 0, "", IF parsed.ok THEN "ok" ELSE "raised")
    /\ UNCHANGED <<chat_map, chat_context, chat_file, context_file, now, usage, expected>>
    /\ UNCHANGED <<fitVars, query, procVars>>

\* an update from chat_id reaches a wrapped handler: the wrapper either calls
\* the handler or sends the refusal and returns.  Of the handler bodies,
\* new_chat calls clear_chat and the message handlers start the agent call.
Handle(handler, chat_id) ==
    /\ auth.up
    /\ handler \in Handlers(auth.module)
    /\ LET called == Calls(auth.module, auth.ALLOWED_CHAT_IDS, chat_id)
           r == clear_chat(chat_map, chat_file, chat_id)
       IN  /\ auth' = [auth EXCEPT !.handler = handler, !.chat_id = chat_id,
                                   !.body = called,
                                   !.agent = called /\ handler \in {"handle_message", "message_handler"},
                                   !.reply = IF called THEN "" ELSE NotAuthorized]
           /\ ret' = Call(handler, chat_id, IF called THEN "called" ELSE "refused", "ok")
           /\ IF called /\ handler = "new_chat"
              THEN /\ chat_map' = r[1]
                   /\ chat_file' = r[2]
                   /\ Track(chat_id, "other")
              ELSE UNCHANGED <<chat_map, chat_file, usage, expected>>
    /\ UNCHANGED <<chat_context, context_file, now, fitVars, query, procVars>>

AuthNext ==
    \/ \E module \in AuthModules, env \in EnvValues : Import(module, env)
    \/ \E handler \in {"start", "new_chat", "handle_message", "message_handler"}, chat_id \in AuthChatIds :
          Handle(handler, chat_id)

(***************************************************************************)
(* SpecTool: the get_chat_history tool of app/tools.py (the same lines are *)
(* in app/data_client.py and run.py).  The rows the SQL statement returned *)
(* are a list in ascending time order; the tool then applies its turn      *)
(* filter and its limit.  A row is named by its 0-based index; an optional *)
(* argument is <<>> for None and <<k>> for the integer k.                  *)
(***************************************************************************)
\* the longest list of rows
MaxToolTurns == 12

ToolRows == {[i \in 1..n |-> i - 1] : n \in 0..MaxToolTurns}
ToolStartTurns == {<<>>, <<0 - 20>>, <<0 - 3>>, <<0>>, <<1>>, <<5>>, <<20>>}
ToolEndTurns == {<<>>, <<0 - 20>>, <<0 - 1>>, <<0>>, <<2>>, <<10>>, <<20>>}
ToolLimits == {0, 1, 10, 20}

\* Python's `x or d` for an optional integer
OrElse(x, d) == IF x = <<>> \/ x[1] = 0 THEN d ELSE x[1]

\* app/tools.py lines 108-116
get_chat_history_tool(conversation_turns, start_turn, end_turn, limit) ==
    LET total == Len(conversation_turns)
        start_idx == Max(0, Min(IF start_turn # <<>> /\ start_turn[1] >= 0
                                THEN start_turn[1]
                                ELSE total + OrElse(start_turn, 0), total))
        end_idx == Max(start_idx,
                       Min(IF end_turn # <<>>
                           THEN IF end_turn[1] >= 0 THEN end_turn[1] + 1
                                ELSE total + OrElse(end_turn, 0 - 1) + 1
                           ELSE total, total))
        sliced == IF start_turn # <<>> \/ end_turn # <<>>
                  THEN SubSeq(conversation_turns, start_idx + 1, end_idx)
                  ELSE conversation_turns
    IN  IF limit > 0 THEN Last(sliced, limit) ELSE sliced

\* one call of the tool by the agent
ToolGetChatHistory(conversation_turns, start_turn, end_turn, limit) ==
    /\ QueryIdle
    /\ query' = [op |-> "get_chat_history_tool",
                 args |-> <<conversation_turns, start_turn, end_turn, limit>>,
                 val |-> get_chat_history_tool(conversation_turns, start_turn, end_turn, limit),
                 first |-> TRUE]
    /\ ret' = Call("get_chat_history_tool", 1, "", "ok")
    /\ UNCHANGED <<chat_map, chat_context, chat_file, context_file, now, usage, expected>>
    /\ UNCHANGED <<fitVars, botVars>>

ToolNext ==
    \E conversation_turns \in ToolRows, start_turn \in ToolStartTurns,
       end_turn \in ToolEndTurns, limit \in ToolLimits :
       ToolGetChatHistory(conversation_turns, start_turn, end_turn, limit)

(***************************************************************************)
(* SpecRead: the five read functions called on a chat in each state the    *)
(* store can leave it in: not loaded, loaded, or emptied by clear_chat     *)
(* while its log holds turns; its context not loaded, or cached as it was  *)
(* set.                                                                    *)
(***************************************************************************)
ReadTurnLists == {<<>>, TurnsAged(<<720, 0>>)}

ReadInit ==
    /\ \E turns \in ReadTurnLists, state \in {"unloaded", "loaded", "cleared"} :
          /\ chat_map = CASE state = "unloaded" -> EmptyMap
                           [] state = "loaded" -> Put(EmptyMap, 1, turns)
                           [] state = "cleared" -> Put(EmptyMap, 1, <<>>)
          /\ chat_file = IF turns = <<>> THEN EmptyMap ELSE Put(EmptyMap, 1, LogOf(turns))
    /\ \E ctx \in {"sum", "sum "}, state \in {"none", "unloaded", "cached"} :
          /\ chat_context = IF state = "cached" THEN Put(EmptyMap, 1, ctx) ELSE EmptyMap
          /\ context_file = IF state = "none" THEN EmptyMap ELSE Put(EmptyMap, 1, ctx)
    /\ now = QueryNow
    /\ ret = Call("import", 0, "", "ok")
    /\ usage = [c \in Chats |-> "other"]
    /\ expected = [c \in Chats |-> <<>>]
    /\ query = NoQuery

ReadNext ==
    \/ QueryNext
    \/ \E c \in SpecChats, fault \in {NoFault, OpenFault} : GetChatContext(c, fault)

(***************************************************************************)
(* SpecProcess: AgentService.process_message (agent.py lines 388-432) on   *)
(* one chat.  The coroutine has one await, the agent run of line 417: a    *)
(* call is the step up to that await (ProcessBegin) and the step after it  *)
(* (ProcessComplete when the run returned, ProcessRaise when it raised).   *)
(* Calls in different slots interleave at the await, as the tasks of an    *)
(* event loop do.  The service is initialized.  The run of the agent is    *)
(* its answer alone: result.new_messages() is a list of messages that      *)
(* json.dumps can serialize or not.                                        *)
(***************************************************************************)
ORCHESTRATOR_MODEL_IDENTIFIER == "groq:llama-3.1-8b-instant"

\* the context files a process finds: none, a short summary, a longer one; the
\* texts are single sentences (they hold no ". ")
ProcContexts == {"", "sum up", "sum up the trip so far"}
\* the prompt template prompts/orchestrator.txt: missing (<<>>), or its length
\* without the placeholder of the context section
PromptFiles == {<<>>, <<40>>}
\* len(user_input): 1 token, 10000 tokens
ProcUserInputs == {4, 40000}
\* result.new_messages()
ProcMessageLists == {<<"a">>, <<OBJ>>}

\* len(get_system_prompt(ModelType.ORCHESTRATOR, context)): the context section
\* wraps a context that is not empty in 112 characters
get_system_prompt(template, context) ==
    template[1] + (IF context # "" THEN 112 + Len(context) ELSE 0)

\* a context text as the budget functions take it: its sentences' lengths
SentencesOf(context) == <<Len(context)>>
\* the text whose sentences the budget functions returned: a context of one
\* sentence comes back whole or cut to its first characters (context[:n])
TextOf(context, sentences) == SubSeq(context, 1, CtxLen(sentences))
\* str(msg) of every message of a history, as lengths
LensOf(messages) == [i \in 1..Len(messages) |-> Len(str(messages[i]))]

\* the call of slot p
Task(p) == IF p \in DOMAIN tasks THEN tasks[p] ELSE NoTask

\* some other slot holds a call for chat c that is at its await
OtherAwaits(p, c) == \E q \in Slots \ {p} : Task(q).pc = "await" /\ Task(q).chat = c

\* a call runs in the first slot that holds no call at its await
FreeSlot(p) == Task(p).pc # "await" /\ \A q \in Slots : q < p => Task(q).pc = "await"

\* lines 394-417: the reads, the fitting, the update of the context, and the
\* start of the agent run
ProcessBegin(p, c, user_input, template, message_timestamp, fp) ==
    LET h == get_chat_history(chat_map, chat_file, c, FALSE, now, NoFault)
        current_chat_history == h[1]
        x == get_chat_context(chat_context, context_file, c, NoFault)
        current_context == x[1]
        fit == ensure_context_fits(get_system_prompt(template, current_context),
                                   SentencesOf(current_context),
                                   LensOf(current_chat_history), user_input,
                                   ORCHESTRATOR_MODEL_IDENTIFIER, fp)
        compressed_context == TextOf(current_context, fit.context)
        set == set_chat_context(x[2], context_file, h[2], chat_file, c,
                                compressed_context, NoFault)
        changed == template # <<>> /\ compressed_context # current_context
        \* kept: the step leaves the chat the turn list it found
        call == [pc |-> "await", chat |-> c, timestamp |-> message_timestamp,
                 new_messages |-> <<>>,
                 kept |-> (IF changed THEN set[3][c] ELSE h[2][c]) = h[2][c],
                 overlap |-> OtherAwaits(p, c)]
    IN  /\ FreeSlot(p)
        /\ IF template = <<>>
           \* get_system_prompt raises FileNotFoundError: the except clause returns
           THEN /\ chat_map' = h[2]
                /\ chat_context' = x[2]
                /\ tasks' = Put(tasks, p, [call EXCEPT !.pc = "failed"])
                /\ ret' = Call("process_message", c, "no_prompt", "ok")
                /\ UNCHANGED <<chat_file, context_file, overlapped>>
           ELSE IF compressed_context # current_context
           THEN /\ chat_context' = set[1]
                /\ context_file' = set[2]
                /\ chat_map' = set[3]
                /\ chat_file' = set[5]
                /\ tasks' = [q \in DOMAIN tasks \cup {p} |->
                                IF q = p THEN call
                                ELSE IF tasks[q].pc = "await" /\ tasks[q].chat = c
                                     THEN [tasks[q] EXCEPT !.overlap = TRUE]
                                     ELSE tasks[q]]
                /\ overlapped' = IF OtherAwaits(p, c) THEN overlapped \cup {c} ELSE overlapped
                /\ ret' = Call("process_message", c, "compressed", set[4])
           ELSE /\ chat_map' = h[2]
                /\ chat_context' = x[2]
                /\ tasks' = [q \in DOMAIN tasks \cup {p} |->
                                IF q = p THEN call
                                ELSE IF tasks[q].pc = "await" /\ tasks[q].chat = c
                                     THEN [tasks[q] EXCEPT !.overlap = TRUE]
                                     ELSE tasks[q]]
                /\ overlapped' = IF OtherAwaits(p, c) THEN overlapped \cup {c} ELSE overlapped
                /\ ret' = Call("process_message", c, "fits", "ok")
                /\ UNCHANGED <<chat_file, context_file>>
        /\ UNCHANGED <<now, usage, expected, fitVars, query, auth>>

\* lines 422-428: the run returned; its new messages become a turn of the chat
ProcessComplete(p, new_messages, wfault) ==
    LET c == Task(p).chat
        r == add_messages_to_history(chat_map, chat_file, c, new_messages,
                                     Task(p).timestamp, NoFault, wfault)
    IN  /\ Task(p).pc = "await"
        /\ Len(r[1][c]) <= MaxTurns
        /\ chat_map' = r[1]
        /\ chat_file' = r[2]
        /\ tasks' = [tasks EXCEPT ![p].pc = "done", ![p].new_messages = new_messages]
        /\ ret' = Call("process_message", c, "completed", r[3])
        /\ UNCHANGED <<chat_context, context_file, now, usage, expected, fitVars, query,
                       overlapped, auth>>

\* lines 430-432: the run raised; the except clause logs and returns
ProcessRaise(p) ==
    /\ Task(p).pc = "await"
    /\ tasks' = [tasks EXCEPT ![p].pc = "failed"]
    /\ ret' = Call("process_message", tasks[p].chat, "raised", "ok")
    /\ UNCHANGED <<chat_map, chat_context, chat_file, context_file, now, usage, expected,
                   fitVars, query, overlapped, auth>>

\* a process that finds the context file of an earlier one
ProcessInit ==
    /\ chat_map = EmptyMap
    /\ chat_context = EmptyMap
    /\ chat_file = EmptyMap
    /\ \E ctx \in ProcContexts :
          context_file = IF ctx = "" THEN EmptyMap ELSE Put(EmptyMap, 1, ctx)
    /\ now = 0
    /\ ret = Call("import", 0, "", "ok")
    /\ usage = [c \in Chats |-> "other"]
    /\ expected = [c \in Chats |-> <<>>]

ProcessNext ==
    \/ \E p \in Slots, c \in SpecChats, u \in ProcUserInputs, t \in PromptFiles, fp \in {0, 1} :
          ProcessBegin(p, c, u, t, now, fp)
    \/ \E p \in Slots, ms \in ProcMessageLists : ProcessComplete(p, ms, NoFault)
    \/ \E p \in Slots : ProcessRaise(p)
    \/ Tick
    \/ Restart

\* no call of process_message is running and no update was handled
BotIdle ==
    /\ tasks = EmptyMap
    /\ overlapped = {}
    /\ auth = NoAuth

(***************************************************************************)
(* Specifications.                                                         *)
(***************************************************************************)
Init == StoreInit /\ FitIdle /\ QueryIdle /\ BotIdle
Next == StoreNext(SpecChats)
Spec == Init /\ [][Next]_vars

InitFit == StoreInit /\ FitInit /\ QueryIdle /\ BotIdle
NextFit == FitNext
SpecFit == InitFit /\ [][NextFit]_vars

InitQuery == QueryInit /\ FitIdle /\ BotIdle
NextQuery == QueryNext
SpecQuery == InitQuery /\ [][NextQuery]_vars

InitBudget == StoreInit /\ BudgetInit /\ QueryIdle /\ BotIdle
NextBudget == BudgetNext
SpecBudget == InitBudget /\ [][NextBudget]_vars

InitContext == StoreInit /\ FitIdle /\ QueryIdle /\ BotIdle
NextContext == ContextNext
SpecContext == InitContext /\ [][NextContext]_vars

InitPair == StoreInit /\ FitIdle /\ QueryIdle /\ BotIdle
NextPair == PairNext
SpecPair == InitPair /\ [][NextPair]_vars

InitAuth == StoreInit /\ FitIdle /\ QueryIdle /\ BotIdle
NextAuth == AuthNext
SpecAuth == InitAuth /\ [][NextAuth]_vars

InitTool == StoreInit /\ FitIdle /\ QueryIdle /\ BotIdle
NextTool == ToolNext
SpecTool == InitTool /\ [][NextTool]_vars

InitRead == ReadInit /\ FitIdle /\ BotIdle
NextRead == ReadNext
SpecRead == InitRead /\ [][NextRead]_vars

InitProcess == ProcessInit /\ FitIdle /\ QueryIdle /\ BotIdle
NextProcess == ProcessNext
SpecProcess == InitProcess /\ [][NextProcess]_vars

(***************************************************************************)
(* Properties of the store (Spec).                                         *)
(***************************************************************************)
Lines(files, c) == IF c \in DOMAIN files THEN files[c] ELSE <<>>

\* what get_chat_history(c, full_history=True) returns in the current state
FullHistory(c) == get_chat_history(chat_map, chat_file, c, TRUE, now, NoFault)[1]
\* ... and in the state a step leads to
FullHistoryAfter(c) == get_chat_history(chat_map', chat_file', c, TRUE, now', NoFault)[1]

IsRecord(l) == l.kind = "record"
\* the turns of the well-formed records of a log, in file order
WellFormedTurns(lines) ==
    LET recs == SelectSeq(lines, IsRecord)
    IN  [i \in 1..Len(recs) |-> LoadLine(recs[i])]

\* every record of the log `old` is in the log `new`, at the same position
RecordsKept(old, new) ==
    \A i \in 1..Len(old) : IsRecord(old[i]) => i <= Len(new) /\ new[i] = old[i]

\* C1: the on-disk turn log is append-only: in every step of the store that meets
\* no I/O error, each record that was in a chat's log is still in it, at the same
\* position.
C1_LogAppendOnly ==
    [][ret'.io = "ok" =>
          \A c \in Chats : RecordsKept(Lines(chat_file, c), Lines(chat_file', c))]_vars

\* C2: after set_chat_context(c, blank text) on a chat that has prior turns, a
\* full-history read still returns the messages of all those turns.
C2_FullHistorySurvivesReset ==
    [][\A c \in Chats :
          (/\ ret'.op = "set_chat_context"
           /\ ret'.chat = c
           /\ Strip(ret'.arg) = ""
           /\ FullHistory(c) # <<>>)
          => FullHistoryAfter(c) = FullHistory(c)]_vars

\* C3: turns survive a restart: for a chat on which only add_messages_to_history
\* (every write succeeding) and reads were called, the full history read after a
\* restart is the full history read before it, in the same order.
C3_TurnsSurviveRestart ==
    [][ret'.op = "restart" =>
          \A c \in Chats :
             usage[c] = "adds_ok" => FullHistoryAfter(c) = FullHistory(c)]_vars

\* C3 witness: a restart has just happened on a chat whose log holds two turns
\* written by successful adds and no other call.
C3_Witness ==
    /\ ret.op = "restart"
    /\ usage[1] = "adds_ok"
    /\ Len(Lines(chat_file, 1)) >= 2
    /\ Len(FullHistory(1)) >= 3

\* C4: after N add_messages_to_history calls on a chat (and nothing but reads in
\* between) a full-history read returns the messages of the N turns, concatenated
\* in call order.
C4_FullHistoryIsConcatenation ==
    \A c \in Chats : usage[c] # "other" => FullHistory(c) = expected[c]

\* C4 witness: two turns with three messages in all were added to a loaded chat.
C4_Witness ==
    /\ usage[1] # "other"
    /\ 1 \in DOMAIN chat_map
    /\ Len(chat_map[1]) = 2
    /\ Len(expected[1]) >= 3
    /\ ret.op = "add_messages_to_history"

\* C5: when a log holds a malformed record, loading it skips only that record:
\* the chat's turn list after the load is the turns of every well-formed record
\* of the file, in file order.
C5_LoadSkipsOnlyMalformed ==
    [][\A c \in Chats :
          (/\ ret'.op = "get_chat_history"
           /\ ret'.io = "ok"
           /\ c \notin DOMAIN chat_map
           /\ c \in DOMAIN chat_map')
          => chat_map'[c] = WellFormedTurns(Lines(chat_file, c))]_vars

(***************************************************************************)
(* Properties of ensure_context_fits (SpecFit).                            *)
(***************************************************************************)
\* analyze_context_usage of the bundle with the given context and history
Usage(context, history) ==
    analyze_context_usage(fit_in.system_prompt, context, history, fit_in.user_input,
                          fit_in.model_identifier)
Returned == fit_pc \in {"out", "again"}
IsSuffix(s, t) == Len(s) <= Len(t) /\ s = Last(t, Len(s))

\* C6: when the bundle is over budget but the system prompt, the context, the
\* user input and the 2 newest history items fit, the returned context and
\* history are within the limit.
C6_FitsWhenTwoNewestFit ==
    (/\ Returned
     /\ Usage(fit_in.context, fit_in.chat_history).needs_compression
     /\ ~Usage(fit_in.context, Last(fit_in.chat_history, 2)).needs_compression)
    => Usage(fit_out.context, fit_out.history).total_tokens
          <= Usage(fit_out.context, fit_out.history).limit

\* C7: ensure_context_fits returns at least 2 history items when it was given at
\* least 2, and at least 1 when it was given at least 1.
C7_HistoryFloor ==
    /\ Returned =>
          /\ Len(fit_in.chat_history) >= 2 => Len(fit_out.history) >= 2
          /\ Len(fit_in.chat_history) >= 1 => Len(fit_out.history) >= 1
    /\ fit_pc = "again" =>
          /\ Len(fit_out.history) >= 2 => Len(fit_again.history) >= 2
          /\ Len(fit_out.history) >= 1 => Len(fit_again.history) >= 1

\* C7 witness: a history of more than 2 items was cut down to the floor of 2.
C7_Witness ==
    /\ fit_pc = "out"
    /\ Len(fit_in.chat_history) > 2
    /\ Len(fit_out.history) = 2

\* C8: the returned history is a contiguous suffix of the input history: the
\* items are dropped at the oldest end only and the rest is unchanged, in order.
C8_HistoryIsSuffix ==
    /\ Returned => IsSuffix(fit_out.history, fit_in.chat_history)
    /\ fit_pc = "again" => IsSuffix(fit_again.history, fit_out.history)

\* C8 witness: some but not all items were dropped, and the items differ in size.
C8_Witness ==
    /\ fit_pc = "out"
    /\ Len(fit_out.history) < Len(fit_in.chat_history)
    /\ Len(fit_out.history) >= 3
    /\ fit_in.chat_history[1] # fit_out.history[1]

\* C9: ensure_context_fits is a no-op on a bundle that fits: the context and the
\* history come back unchanged; so a second call on an output that fits returns
\* that output.
C9_NoOpWhenFits ==
    /\ (Returned /\ ~Usage(fit_in.context, fit_in.chat_history).needs_compression)
          => fit_out.context = fit_in.context /\ fit_out.history = fit_in.chat_history
    /\ (fit_pc = "again" /\ ~Usage(fit_out.context, fit_out.history).needs_compression)
          => fit_again = fit_out

\* C9 witness: a bundle was compressed, its output fits, and the call was repeated
\* on that output.
C9_Witness ==
    /\ fit_pc = "again"
    /\ Usage(fit_in.context, fit_in.chat_history).needs_compression
    /\ ~Usage(fit_out.context, fit_out.history).needs_compression
    /\ fit_out.history # fit_in.chat_history
    /\ fit_out.context # fit_in.context

\* C10: ensure_context_fits never raises: every call returns a (context, history)
\* pair, also when the bundle is still over the limit after both stages.
C10_NeverRaises ==
    /\ Returned => ~fit_out.raised
    /\ fit_pc = "again" => ~fit_again.raised

\* C10 witness: both stages ran and the returned bundle is still over the limit.
C10_Witness ==
    /\ fit_pc = "out"
    /\ ~fit_out.raised
    /\ fit_out.history # fit_in.chat_history
    /\ fit_out.context # fit_in.context
    /\ Usage(fit_out.context, fit_out.history).needs_compression

\* the history less its k oldest items
DropOldest(history, k) == SubSeq(history, k + 1, Len(history))
\* the tokens the history loses with its k oldest items
TokensRemoved(history, k) ==
    count_tokens(JoinLen(history)) - count_tokens(JoinLen(DropOldest(history, k)))
\* the tokens by which the bundle exceeds the limit
Overshoot(context, history) == Abs(Usage(context, history).remaining)
\* removing the k oldest items meets the removal target of stage 1: half of the
\* reduction needed, capped at the tokens of the history
TargetMet(context, history, k) ==
    \/ 2 * TokensRemoved(history, k) >= Overshoot(context, history)
    \/ TokensRemoved(history, k) >= count_tokens(JoinLen(history))

\* C28: stage 1 stops as soon as the tokens removed from the history meet the
\* removal target: no item is removed once the items removed before it met the
\* target, and the removal goes on until the target is met or 2 items are left.
C28_StopsAtTarget ==
    (Returned /\ Usage(fit_in.context, fit_in.chat_history).needs_compression) =>
        LET history == fit_in.chat_history
            dropped == Len(history) - Len(fit_out.history)
        IN  /\ dropped > 0 => ~TargetMet(fit_in.context, history, dropped - 1)
            /\ ~TargetMet(fit_in.context, history, dropped) => Len(fit_out.history) <= 2

\* the context comes back as it was given when the bundle fits, when the tokens
\* removed from the history are at least the overshoot, or when it is empty
ContextKept(context, history, out) ==
    (\/ ~Usage(context, history).needs_compression
     \/ TokensRemoved(history, Len(history) - Len(out.history)) >= Overshoot(context, history)
     \/ CtxLen(context) = 0)
    => out.context = context

\* C29: ensure_context_fits changes the context only when the bundle is still over
\* the limit after stage 1: when the tokens removed from the history are at least
\* the original overshoot, or the context given is empty, the context returned is
\* the context given.
C29_ContextOnlyWhenStillOver ==
    /\ Returned => ContextKept(fit_in.context, fit_in.chat_history, fit_out)
    /\ fit_pc = "again" => ContextKept(fit_out.context, fit_out.history, fit_again)

\* C29 witness: a bundle over the limit with a context of 500 tokens lost more
\* history tokens than its overshoot, and its context came back unchanged.
C29_Witness ==
    /\ fit_pc = "out"
    /\ Usage(fit_in.context, fit_in.chat_history).needs_compression
    /\ fit_in.context = <<2000>>
    /\ Len(fit_out.history) < Len(fit_in.chat_history)
    /\ TokensRemoved(fit_in.chat_history, Len(fit_in.chat_history) - Len(fit_out.history))
          >= Overshoot(fit_in.context, fit_in.chat_history)
    /\ fit_out.context = fit_in.context

(***************************************************************************)
(* Properties of the read functions (SpecQuery).                           *)
(***************************************************************************)
\* the turn list of chat c the last call worked on
TurnsOf(c) == IF c \in DOMAIN chat_map THEN chat_map[c] ELSE <<>>

RECURSIVE MessagesAt(_, _, _)
\* the messages of the turns of `turns` whose 1-based index is in idx, from turn i
\* on, in list order
MessagesAt(turns, idx, i) ==
    IF i > Len(turns) THEN <<>>
    ELSE (IF i \in idx THEN turns[i][1] ELSE <<>>) \o MessagesAt(turns, idx, i + 1)

\* indices of the turns younger than the recent-age window at time t
AgeFiltered(turns, t) ==
    {i \in 1..Len(turns) : t - turns[i][2] < MAX_RECENT_AGE_MINUTES * 60}
\* indices of the last MAX_RECENT_MESSAGES turns
CountFiltered(turns) == {i \in 1..Len(turns) : i > Len(turns) - MAX_RECENT_MESSAGES}

\* C11: get_chat_history(c, full_history=False) returns the flattened messages of
\* the age-filtered turns (age below MAX_RECENT_AGE_MINUTES minutes) when they are
\* strictly fewer than the count-filtered turns (the last MAX_RECENT_MESSAGES), and
\* of the count-filtered turns otherwise.
C11_RecentWindow ==
    (query.op = "get_chat_history" /\ query.args = <<FALSE>>) =>
        LET turns == TurnsOf(ret.chat)
            byAge == AgeFiltered(turns, now)
            byCount == CountFiltered(turns)
        IN  query.val = MessagesAt(turns, IF Cardinality(byAge) < Cardinality(byCount)
                                          THEN byAge ELSE byCount, 1)

\* C11 witness: for turns aged 20, 12, 9, 5 and 0 minutes the recent read returned
\* the messages of the 3 turns younger than 10 minutes.
C11_Witness ==
    /\ query.op = "get_chat_history"
    /\ query.args = <<FALSE>>
    /\ TurnsOf(1) = TurnsAged(<<1200, 720, 540, 300, 0>>)
    /\ query.val = QueryMessages(3) \o QueryMessages(4) \o QueryMessages(5)

\* a turn index with a negative value counted from the end of n turns
FromEnd(k, n) == IF k < 0 THEN n + k ELSE k
\* k moved onto the nearest index of a list of n > 0 turns
ClampIndex(k, n) == Max(0, Min(k, n - 1))

\* C12 as stated: get_chat_history_range returns the messages of exactly the turns
\* whose 0-based index i satisfies s <= i <= e, s and e being start_turn and
\* end_turn with negative values counted from the end and clamped into the list.
C12_RangeClamped ==
    query.op = "get_chat_history_range" =>
        LET turns == TurnsOf(ret.chat)
            n == Len(turns)
            s == ClampIndex(FromEnd(query.args[1], n), n)
            e == ClampIndex(FromEnd(query.args[2], n), n)
        IN  query.val = MessagesAt(turns, {i \in 1..n : s <= i - 1 /\ i - 1 <= e}, 1)

\* C12 amended: get_chat_history_range returns the messages of exactly the turns
\* whose 0-based index i satisfies s <= i <= e, s and e being start_turn and
\* end_turn with negative values counted from the end; a bound outside the list
\* is not moved onto the nearest turn, so a start past the last turn or an end
\* before the first turn selects nothing.
C12_RangeSelects ==
    query.op = "get_chat_history_range" =>
        LET turns == TurnsOf(ret.chat)
            n == Len(turns)
            s == FromEnd(query.args[1], n)
            e == FromEnd(query.args[2], n)
        IN  query.val = MessagesAt(turns, {i \in 1..n : s <= i - 1 /\ i - 1 <= e}, 1)

\* C12 witness: get_chat_history_range(c, -3, -1) on 10 turns returned the turns
\* of index 7, 8 and 9.
C12_Witness ==
    /\ query.op = "get_chat_history_range"
    /\ query.args = <<0 - 3, 0 - 1>>
    /\ Len(TurnsOf(1)) = 10
    /\ query.val = QueryMessages(8) \o QueryMessages(9) \o QueryMessages(10)

\* C13: get_chat_history_by_time(c, minutes_ago_start, minutes_ago_end) returns the
\* messages of exactly the turns whose timestamp t satisfies
\* now - 60 * minutes_ago_start <= t <= now - 60 * minutes_ago_end, in stored order
\* (the two bounds being numbers the clock can be compared with).
C13_ByTimeInclusive ==
    (query.op = "get_chat_history_by_time" /\ ret.io # "raised") =>
        LET turns == TurnsOf(ret.chat)
            from == now - 60 * query.args[1]
            to == now - 60 * query.args[2]
        IN  query.val = MessagesAt(turns, {i \in 1..Len(turns) :
                                              from <= turns[i][2] /\ turns[i][2] <= to}, 1)

\* C13 witness: get_chat_history_by_time(c, 30, 0) on turns aged 1801, 1800 and 0
\* seconds returned the turns aged 1800 and 0 seconds.
C13_Witness ==
    /\ query.op = "get_chat_history_by_time"
    /\ query.args = <<30, 0>>
    /\ TurnsOf(1) = TurnsAged(<<1801, 1800, 0>>)
    /\ query.val = QueryMessages(2) \o QueryMessages(3)

\* C14: search_chat_history_keywords returns at most max_results matches, for
\* every max_results >= 0.
C14_AtMostMaxResults ==
    query.op = "search_chat_history_keywords" => Len(query.val) <= query.args[2]

\* the message contains one of the keywords, letter case set aside
MatchesAny(message, keywords) ==
    \E k \in 1..Len(keywords) : Contains(lower(keywords[k]), lower(message))
\* the messages of the turns that match, in turn order then message order
AllMatches(turns, keywords) ==
    LET Hit(message) == MatchesAny(message, keywords)
    IN  SelectSeq(MessagesAt(turns, 1..Len(turns), 1), Hit)

\* C15: search_chat_history_keywords returns, in scan order (turn order, then
\* message order), the text of messages that contain one of the keywords
\* case-insensitively: what it returns is a prefix of the matching messages, and
\* all of them when they are fewer than max_results.
C15_MatchesInScanOrder ==
    query.op = "search_chat_history_keywords" =>
        LET all == AllMatches(TurnsOf(ret.chat), query.args[1])
        IN  /\ IsPrefix(query.val, all)
            /\ Len(query.val) < query.args[2] => query.val = all

\* C15 witness: a search for "RE:" with max_results = 3 on 10 turns returned the
\* first three of the matching messages, written "Re: ...", other messages lying
\* between them.
C15_Witness ==
    /\ query.op = "search_chat_history_keywords"
    /\ query.args = <<<<"RE:">>, 3>>
    /\ Len(TurnsOf(1)) = 10
    /\ query.val = <<"Re: b", "Re: e", "Re: h">>

RECURSIVE IsSubsequence(_, _)
\* the items of s are items of t, in the order of t
IsSubsequence(s, t) ==
    IF s = <<>> THEN TRUE
    ELSE IF t = <<>> THEN FALSE
    ELSE IF Head(s) = Head(t) THEN IsSubsequence(Tail(s), Tail(t))
    ELSE IsSubsequence(s, Tail(t))

\* C26: get_chat_history_range and get_chat_history_by_time do not raise on
\* invalid arguments: for all start_turn, end_turn, minutes_ago_start and
\* minutes_ago_end (indices outside the list, a start after the end once
\* converted, negative minutes, a start newer than the end) a call returns the
\* messages of a block of turns cut to the list, or of the turns of the list that
\* are in the time range, and nothing when the range is inverted or the chat has
\* no turns; an exception can only be one of the load of the log, which leaves the
\* chat not loaded.
C26_InvalidArgumentsReturn ==
    query.op \in {"get_chat_history_range", "get_chat_history_by_time"} =>
        LET turns == TurnsOf(ret.chat)
            n == Len(turns)
        IN  /\ ret.io = "raised" => ret.chat \notin DOMAIN chat_map
            /\ ret.io # "raised" =>
                  /\ n = 0 => query.val = <<>>
                  /\ query.op = "get_chat_history_range" =>
                        /\ \E a \in 0..n : \E b \in a..n :
                              query.val = Flatten(Slice(turns, a, b))
                        /\ FromEnd(query.args[1], n) > FromEnd(query.args[2], n)
                              => query.val = <<>>
                  /\ query.op = "get_chat_history_by_time" =>
                        /\ IsSubsequence(query.val, Flatten(turns))
                        /\ query.args[1] < query.args[2] => query.val = <<>>

(***************************************************************************)
(* More properties of the store (Spec).                                    *)
(***************************************************************************)
\* what get_chat_history(c, full_history=False) returns in the current state
RecentHistory(c) == get_chat_history(chat_map, chat_file, c, FALSE, now, NoFault)[1]
\* ... and in the state a step leads to
RecentHistoryAfter(c) == get_chat_history(chat_map', chat_file', c, FALSE, now', NoFault)[1]

C17_ClearLeavesLog ==
    [][(\/ ret'.op = "clear_chat"
        \/ ret'.op = "set_chat_context" /\ Strip(ret'.arg) = "")
       => chat_file' = chat_file]_vars

\* C17 witness: set_chat_context with a blank text has emptied the turn list of a
\* chat whose log holds a record.
C17_Witness ==
    /\ ret.op = "set_chat_context"
    /\ ret.arg = ""
    /\ 1 \in DOMAIN chat_map
    /\ chat_map[1] = <<>>
    /\ \E i \in 1..Len(Lines(chat_file, 1)) : IsRecord(chat_file[1][i])

\* C18: _ensure_chat_loaded is idempotent: once a chat is loaded, a later call
\* that ensures loading does not read the log again: a read leaves the turn list
\* as it was and an add only appends one turn to it.
C18_LoadedOnce ==
    [][\A c \in Chats :
          (c \in DOMAIN chat_map /\ ret'.chat = c /\ now' = now) =>
             /\ ret'.op = "get_chat_history" => chat_map'[c] = chat_map[c]
             /\ ret'.op = "add_messages_to_history" =>
                   /\ Len(chat_map'[c]) = Len(chat_map[c]) + 1
                   /\ IsPrefix(chat_map[c], chat_map'[c])]_vars

\* C18 witness: a read was made of a chat whose turn list holds turns and was
\* loaded before (it differs from what a load of its log yields).
C18_Witness ==
    /\ ret.op = "get_chat_history"
    /\ 1 \in DOMAIN chat_map
    /\ chat_map[1] # <<>>
    /\ chat_map[1] # _load_chat(chat_file, 1, NoFault)

\* C20: when the write of the log fails in add_messages_to_history the call does
\* not raise and the new turn stays in the turn list: the full history read in
\* the same process ends with its messages.
C20_FailedWriteKeepsTurn ==
    [][\A c \in Chats :
          (/\ ret'.op = "add_messages_to_history"
           /\ ret'.chat = c
           /\ ret'.io = "error"
           /\ now' = now
           /\ c \in DOMAIN chat_map)
          => /\ Len(chat_map'[c]) = Len(chat_map[c]) + 1
             /\ \E ms \in MessageLists : FullHistoryAfter(c) = FullHistory(c) \o ms]_vars

\* C20 witness: an add whose write failed left two turns in the list and fewer
\* lines in the log.
C20_Witness ==
    /\ ret.op = "add_messages_to_history"
    /\ ret.io = "error"
    /\ 1 \in DOMAIN chat_map
    /\ Len(chat_map[1]) = 2
    /\ Len(Lines(chat_file, 1)) < 2

(***************************************************************************)
(* Load errors (SpecQuery).                                                *)
(***************************************************************************)
\* C19: a disk I/O error while loading a chat's log is treated as "no history":
\* the call does not raise, the chat's turn list becomes empty, and the reads
\* that follow (get_chat_history, get_chat_history_range, get_chat_history_by_time,
\* search_chat_history_keywords) return empty results.
C19_LoadErrorIsNoHistory ==
    /\ ret.io # "raised"
    /\ ret.io = "error" => chat_map[ret.chat] = <<>> /\ query.val = <<>>
    /\ \A c \in SpecChats :
          (c \in DOMAIN chat_map /\ chat_map[c] = <<>> /\ query.op # "none")
          => query.val = <<>>
(***************************************************************************)
(* Failed writes of the log (Spec).                                        *)
(***************************************************************************)
\* the log of chat c holds at line k the record of the k-th turn of the list
RecordAt(files, map, c, k) ==
    /\ k <= Len(Lines(files, c))
    /\ Lines(files, c)[k] = DumpLine(map[c][k])

\* C21: write errors on append are not retried: a turn whose write failed (the
\* last add ended with an error and the log has no record of the turn at its
\* place) is not written to the log by the operation that follows.
C21_FailedTurnStaysOffLog ==
    [][\A c \in Chats :
          (/\ ret.op = "add_messages_to_history"
           /\ ret.chat = c
           /\ ret.io = "error"
           /\ ~RecordAt(chat_file, chat_map, c, Len(chat_map[c])))
          => ~RecordAt(chat_file', chat_map, c, Len(chat_map[c]))]_vars

\* C22: when the write of add_messages_to_history on a loaded chat fails or stops
\* part-way, every record that was in the log before the call is still in it, at
\* the same position.
C22_FailedWriteKeepsRecords ==
    [][\A c \in Chats :
          (/\ ret'.op = "add_messages_to_history"
           /\ ret'.chat = c
           /\ ret'.io = "error"
           /\ c \in DOMAIN chat_map)
          => RecordsKept(Lines(chat_file, c), Lines(chat_file', c))]_vars
(***************************************************************************)
(* Properties of the context functions (SpecContext).                      *)
(***************************************************************************)
\* what get_chat_context(c) returns in the current state
Context(c) == get_chat_context(chat_context, context_file, c, NoFault)[1]
\* ... and in the state a step leads to
ContextAfter(c) == get_chat_context(chat_context', context_file', c, NoFault)[1]

\* the context of c is cached, the call being on c
Cached(c) == c \in DOMAIN chat_context
\* a step of the named function on chat c
Called(op, c) == ret'.op = op /\ ret'.chat = c

\* C23 as stated: get_chat_context(c) returns the text most recently passed to
\* set_chat_context(c, .) in this process; if none is cached it returns the
\* content of the context file, or the empty text when the file is absent, and
\* caches that value, so that later calls do not read the file again.
C23_ContextIsFileContent ==
    [][\A c \in Chats :
          /\ Called("set_chat_context", c) => ContextAfter(c) = ret'.arg
          /\ (Called("get_chat_context", c) /\ ret'.io = "ok") =>
                /\ ContextAfter(c) = chat_context'[c]
                /\ chat_context'[c] =
                      IF Cached(c) THEN chat_context[c]
                      ELSE IF c \in DOMAIN context_file THEN context_file[c] ELSE ""]_vars

\* C23 amended: get_chat_context(c) returns the text most recently passed to
\* set_chat_context(c, .) in this process; if none is cached it returns the
\* content of the context file less its leading and trailing white space, or the
\* empty text when the file is absent, and caches that value, so that later calls
\* do not read the file again.
C23_ContextIsStrippedFile ==
    [][\A c \in Chats :
          /\ Called("set_chat_context", c) => ContextAfter(c) = ret'.arg
          /\ (Called("get_chat_context", c) /\ ret'.io = "ok") =>
                /\ ContextAfter(c) = chat_context'[c]
                /\ chat_context'[c] =
                      IF Cached(c) THEN chat_context[c]
                      ELSE IF c \in DOMAIN context_file THEN Strip(context_file[c]) ELSE ""
          /\ (Cached(c) /\ ret'.op \in {"get_chat_context", "get_chat_history",
                                        "add_messages_to_history"})
                => ContextAfter(c) = Context(c)]_vars

\* C23 witness: after a restart get_chat_context has read a context file whose
\* text ends with white space and returned it stripped.
C23_Witness ==
    /\ ret.op = "get_chat_context"
    /\ ret.io = "ok"
    /\ 1 \in DOMAIN chat_context
    /\ chat_context[1] = "sum"
    /\ 1 \in DOMAIN context_file
    /\ context_file[1] = "sum "

\* C24: clear_chat_context(c) removes the cached context and deletes the context
\* file, and leaves the turn list and the log of the chat as they were; after it
\* get_chat_context(c) returns the empty text until the next set_chat_context(c, .).
C24_ClearContextOnly ==
    [][\A c \in Chats :
          /\ (Called("clear_chat_context", c) /\ ret'.io = "ok") =>
                /\ c \notin DOMAIN chat_context'
                /\ c \notin DOMAIN context_file'
                /\ chat_map' = chat_map
                /\ chat_file' = chat_file
                /\ ContextAfter(c) = ""
          /\ (/\ c \notin DOMAIN context_file
              /\ Context(c) = ""
              /\ ~Called("set_chat_context", c))
             => c \notin DOMAIN context_file' /\ ContextAfter(c) = ""]_vars

\* C24 witness: clear_chat_context was called on a chat that holds a turn in its
\* list and a record in its log; its context file is gone.
C24_Witness ==
    /\ ret.op = "clear_chat_context"
    /\ ret.io = "ok"
    /\ 1 \notin DOMAIN context_file
    /\ 1 \in DOMAIN chat_map
    /\ chat_map[1] # <<>>
    /\ Lines(chat_file, 1) # <<>>
(***************************************************************************)
(* Properties of the parts of the budget (SpecBudget).                     *)
(***************************************************************************)
\* C25: analyze_context_usage reports total_tokens as the sum of the token counts
\* of the system prompt, the context (0 when it is empty), the joined history and
\* the user input; limit as the context limit of the model, 8192 for an unknown
\* identifier, less the safety margin of 1000 tokens; remaining as limit less
\* total_tokens; and needs_compression exactly when remaining < 0.
C25_UsageReport ==
    query.op = "analyze_context_usage" =>
        LET info == query.val
            model == fit_in.model_identifier
        IN  /\ info.total_tokens =
                  count_tokens(fit_in.system_prompt)
                  + (IF CtxLen(fit_in.context) = 0 THEN 0
                     ELSE count_tokens(CtxLen(fit_in.context)))
                  + count_tokens(JoinLen(fit_in.chat_history))
                  + count_tokens(fit_in.user_input)
            /\ info.limit = (IF model \in KnownModels THEN MODEL_LIMITS(model) ELSE 8192) - 1000
            /\ info.remaining = info.limit - info.total_tokens
            /\ info.needs_compression = (info.remaining < 0)

\* C25 witness: a bundle of exactly 7192 tokens for an unknown model: nothing
\* remains and no compression is needed.
C25_Witness ==
    /\ query.op = "analyze_context_usage"
    /\ fit_in.model_identifier = "unknown:model"
    /\ query.val.total_tokens = 7192
    /\ query.val.remaining = 0
    /\ ~query.val.needs_compression

\* the text r, as sentences, is the end of the text o: the tail of one sentence
\* of o and the sentences that follow it
TextSuffix(r, o) ==
    \E k \in 1..Len(o) :
       /\ Len(r) = Len(o) - k + 1
       /\ r[1] <= o[k]
       /\ \A i \in 2..Len(r) : r[i] = o[k + i - 1]
\* the text o followed by a full stop
WithStop(o) == [o EXCEPT ![Len(o)] = @ + 1]

\* C30: when compress_context shortens a context that exceeds max_tokens, the
\* text it returns is the end of the original (its last sentences, a full stop
\* closing them, or its last part): what is discarded is the start of the text.
C30_KeepsTheEnd ==
    (/\ query.op = "compress_context"
     /\ ~query.val.raised
     /\ query.val.text # fit_in.context)
    => \/ TextSuffix(query.val.text, fit_in.context)
       \/ TextSuffix(query.val.text, WithStop(fit_in.context))
(***************************************************************************)
(* Independence of the chats (SpecPair).                                   *)
(***************************************************************************)
\* the entry of key d is the same in the maps f and g
SameEntry(f, g, d) ==
    /\ d \in DOMAIN f <=> d \in DOMAIN g
    /\ d \in DOMAIN f => f[d] = g[d]

\* C27: chats are independent: a call of a store function on one chat leaves the
\* turn list, the context, the log and the context file of the other chat as they
\* were, whatever calls came before on either chat.
C27_ChatsIndependent ==
    [][\A c \in Chats :
          ret'.chat = c =>
             \A d \in Chats \ {c} :
                /\ SameEntry(chat_map, chat_map', d)
                /\ SameEntry(chat_context, chat_context', d)
                /\ SameEntry(chat_file, chat_file', d)
                /\ SameEntry(context_file, context_file', d)]_vars

\* C27 witness: set_chat_context with an empty text has reset chat 1, whose log
\* holds a record, while chat 2 holds a turn, a log and a context.
C27_Witness ==
    /\ ret.op = "set_chat_context"
    /\ ret.chat = 1
    /\ ret.arg = ""
    /\ chat_map[1] = <<>>
    /\ Lines(chat_file, 1) # <<>>
    /\ 2 \in DOMAIN chat_map
    /\ chat_map[2] # <<>>
    /\ Lines(chat_file, 2) # <<>>
    /\ 2 \in DOMAIN chat_context
    /\ chat_context[2] = "sum"
(***************************************************************************)
(* The recent window of a chronological list (SpecQuery).                  *)
(***************************************************************************)
\* the timestamps of the turns do not decrease along the list
Chronological(turns) ==
    \A i \in 1..Len(turns) : \A j \in i..Len(turns) : turns[i][2] <= turns[j][2]

\* C34: the recent window (the turns get_chat_history(c, full_history=False)
\* returns) holds at most MAX_RECENT_MESSAGES turns for every turn list; when
\* the timestamps do not decrease along the list it is a contiguous suffix of
\* the list, made of exactly the turns that are both younger than the age window
\* and among the last MAX_RECENT_MESSAGES.
C34_RecentIsBothCriteria ==
    (query.op = "get_chat_history" /\ query.args = <<FALSE>>) =>
        LET turns == TurnsOf(ret.chat)
            byAge == AgeFiltered(turns, now)
            byCount == CountFiltered(turns)
            both == byAge \cap byCount
        IN  /\ \E window \in {byAge, byCount} :
                  /\ Cardinality(window) <= MAX_RECENT_MESSAGES
                  /\ query.val = MessagesAt(turns, window, 1)
            /\ Chronological(turns) =>
                  /\ query.val = MessagesAt(turns, both, 1)
                  /\ both = {i \in 1..Len(turns) : i > Len(turns) - Cardinality(both)}

\* C34 witness: of 17 turns in chronological order, the first 3 aged 20 minutes
\* and the others new, the recent read returned the last 14.
C34_Witness ==
    /\ query.op = "get_chat_history" /\ query.args = <<FALSE>>
    /\ Len(TurnsOf(1)) = 17
    /\ Chronological(TurnsOf(1))
    /\ AgeFiltered(TurnsOf(1), now) = 4..17
    /\ query.val = MessagesAt(TurnsOf(1), 4..17, 1)

(***************************************************************************)
(* The read functions leave the stored data alone (SpecRead).              *)
(***************************************************************************)
\* map g is map f, or f with the entry d added
SameOrLoaded(f, g, d) ==
    /\ DOMAIN f \subseteq DOMAIN g
    /\ DOMAIN g \subseteq DOMAIN f \cup {d}
    /\ \A k \in DOMAIN f : g[k] = f[k]

\* C35: get_chat_history (either mode), search_chat_history_keywords,
\* get_chat_history_range, get_chat_history_by_time and get_chat_context change
\* no file, no turn list of a chat that is loaded and no cached context; all a
\* call changes is the entry of its chat that it loads at first access, the
\* history reads in chat_map only and get_chat_context in chat_context only.
C35_ReadsArePure ==
    [][/\ chat_file' = chat_file
       /\ context_file' = context_file
       /\ SameOrLoaded(chat_map, chat_map', ret'.chat)
       /\ SameOrLoaded(chat_context, chat_context', ret'.chat)
       /\ ret'.op = "get_chat_context" => chat_map' = chat_map
       /\ ret'.op # "get_chat_context" => chat_context' = chat_context]_vars

\* C35 witness: a history read was answered from a turn list that clear_chat had
\* emptied while the log holds turns, and the list is still empty.
C35_Witness ==
    /\ query.op \in {"get_chat_history", "get_chat_history_range",
                     "get_chat_history_by_time", "search_chat_history_keywords"}
    /\ ~query.first
    /\ 1 \in DOMAIN chat_map /\ chat_map[1] = <<>>
    /\ 1 \in DOMAIN chat_file /\ Len(chat_file[1]) = 2
    /\ 1 \in DOMAIN chat_context /\ chat_context[1] = "sum "
    /\ 1 \in DOMAIN context_file /\ context_file[1] = "sum "

Found(c) == _ensure_chat_loaded(chat_map, chat_file, c, NoFault)[c]

\* C31: a call of process_message whose agent run completes appends exactly one
\* turn, the new messages with the timestamp of the message, to the turn list;
\* a call whose fitting step or agent run raises leaves the turn list as it
\* found it; neither takes a turn off the list.
C31_OneTurnPerCompletedCall ==
    [][\A p \in Slots :
          (/\ ret'.op = "process_message"
           /\ p \in DOMAIN tasks'
           /\ tasks'[p] # Task(p)
           /\ tasks'[p].pc \in {"done", "failed"})
          => LET c == tasks'[p].chat
                 turn == <<tasks'[p].new_messages, tasks'[p].timestamp>>
             IN  /\ tasks'[p].kept
                 /\ chat_map'[c] = IF tasks'[p].pc = "done" THEN Append(Found(c), turn)
                                   ELSE Found(c)]_vars

\* C32: the step of process_message that persists a context ensure_context_fits
\* compressed does not empty the chat's turn list: the list after the step is the
\* list the call found, whatever the context, the history and the overshoot.
C32_CompressionKeepsTurns ==
    [][(/\ ret'.op = "process_message"
        /\ ret'.arg = "compressed"
        /\ tasks' # tasks)
       => chat_map'[ret'.chat] = Found(ret'.chat)]_vars

(***************************************************************************)
(* Overlapping calls of process_message for one chat (SpecProcess).  A     *)
(* call overlaps another when it begins while the other is at its await.   *)
(***************************************************************************)
\* C36 as stated: in every state the turn list of every loaded chat is in
\* chronological order, also when calls for the chat overlap.
C36_AlwaysChronological ==
    \A c \in DOMAIN chat_map : Chronological(chat_map[c])

\* C36, amended: the turn list of a chat is in chronological order as long as
\* no call for the chat began while another call for it was at its await (the
\* calls being started with timestamps that do not decrease); turns of
\* overlapping calls are in the order the calls completed.
C36_ChronologicalUnlessOverlapped ==
    \A c \in DOMAIN chat_map : c \notin overlapped => Chronological(chat_map[c])

\* C36 witness: two calls for chat 1 that did not overlap completed, the second
\* one started later than the first, and their turns are in that order.
C36_Witness ==
    /\ 1 \notin overlapped
    /\ 1 \in DOMAIN chat_map
    /\ Len(chat_map[1]) = 2
    /\ chat_map[1][1][2] < chat_map[1][2][2]
    /\ ret.op = "process_message" /\ ret.arg = "completed"

TurnOf(task) == <<task.new_messages, task.timestamp>>

\* a record of the log of chat c is the line json.dumps writes for the turn
Logged(c, turn) ==
    /\ c \in DOMAIN chat_file
    /\ \E i \in 1..Len(chat_file[c]) : chat_file[c][i] = DumpLine(turn)

\* C37: when two calls for one chat overlapped at the await and both agent runs
\* completed, the turn list of the chat holds the turns of both calls and the
\* log of the chat holds the records of both.
C37_NoAppendLost ==
    (/\ \A p \in Slots : Task(p).pc = "done" /\ Task(p).overlap
     /\ Task(1).chat = Task(2).chat)
    => LET c == tasks[1].chat
       IN  \A p \in Slots :
              /\ \E i \in 1..Len(chat_map[c]) : chat_map[c][i] = TurnOf(tasks[p])
              /\ Logged(c, TurnOf(tasks[p]))

(***************************************************************************)
(* The allow-list (SpecAuth).                                              *)
(***************************************************************************)
\* C38: a handler is called only for a chat id that is in ALLOWED_CHAT_IDS (so
\* for no chat when the variable is unset or the set is empty); a chat that is
\* not in the set gets the refusal, the agent call is not started and the
\* store is as it was.
C38_OnlyAllowedChats ==
    [][(auth'.handler # "" /\ ret' # ret /\ auth'.chat_id \notin auth'.ALLOWED_CHAT_IDS)
       => /\ ~auth'.body
          /\ ~auth'.agent
          /\ auth'.reply = NotAuthorized
          /\ <<chat_map', chat_context', chat_file', context_file'>>
               = <<chat_map, chat_context, chat_file, context_file>>]_vars

(***************************************************************************)
(* The turn filter of the get_chat_history tool (SpecTool).                *)
(***************************************************************************)
\* the 0-based index an optional turn argument stands for in a list of total
\* rows: d when it is omitted, counted from the end when it is negative
TurnIndex(x, d, total) == IF x = <<>> THEN d ELSE IF x[1] >= 0 THEN x[1] ELSE total + x[1]

\* C39: the tool returns the rows whose 0-based index lies between start_turn
\* and end_turn, both included, a negative index counted from the end, an
\* omitted start_turn standing for the first row and an omitted end_turn for
\* the last one; the limit is applied to that slice (its last `limit` rows, all
\* of them when the limit is not positive).
C39_TurnFilter ==
    query.op = "get_chat_history_tool" =>
        LET conversation_turns == query.args[1]
            total == Len(conversation_turns)
            lo == TurnIndex(query.args[2], 0, total)
            hi == TurnIndex(query.args[3], total - 1, total)
            limit == query.args[4]
            slice == SelectSeq(conversation_turns, LAMBDA i : lo <= i /\ i <= hi)
        IN  query.val = IF limit > 0 THEN Last(slice, limit) ELSE slice

====
